---- MODULE Spec2Model ----
(***************************************************************************)
(* Trailing-stop order engine of moomoo_pnl: the order entities            *)
(* (core/orders/models.py), the per-type order services                    *)
(* (core/orders/services.py), the order manager with its monitor thread    *)
(* (core/orders/managers.py) and the PATCH/DELETE request handlers         *)
(* (routes/orders.py).                                                     *)
(*                                                                         *)
(* Prices are integers in one currency unit.  The source computes trigger  *)
(* prices in floating point; the model computes them exactly, as integers  *)
(* counted in 1/PercentBase of a unit, so that highest * (1 - pct/100) is  *)
(* highest * (100 - pct) hundredths.  Timestamps (created_at, updated_at,  *)
(* last_check_time) are kept only by the orders of the repository part     *)
(* (SpecRepo, SpecLoad); the orders of the manager part carry none.        *)
(***************************************************************************)
EXTENDS Integers, Sequences, FiniteSets, TLC

(***************************************************************************)
(* Optional[...] values: None, or a one-element tuple holding the value.   *)
(***************************************************************************)
None == <<>>
Some(v) == <<v>>
Val(x) == x[1]

\* CustomOrderStatus
WAITING == "waiting"
TRIGGERED == "triggered"
COMPLETED == "completed"
CANCELLED == "cancelled"
ERROR == "error"

\* The divisor of trailing_percent; trigger prices are counted in 1/PercentBase.
PercentBase == 100

\* float(1e10), the "no low seen yet" value of lowest_price.  The model keeps
\* it above every price it feeds, within the range of the checker's integers.
SENTINEL_LOWEST == 2000000000

(***************************************************************************)
(* Bounds of the model.                                                    *)
(***************************************************************************)
\* prices fed to one order by the entity-level specification
MaxFed == 5
\* orders added to one manager
MaxOrders == 2
\* orders in one collection saved through the repository
MaxItems == 3
\* Thread objects created by the start() calls on one service or manager
MaxThreads == 3
\* get_or_fetch calls made on one cache, and the ticks of its clock
MaxCalls == 4
MaxClock == 3
\* place_order calls for one order id after which no further restart is followed
MaxSubmissions == 2

\* Inputs of the entity-level specification (SpecOrder).
OrderPrices == {0, 180, 185, 190, 191}
OrderThresholds == {0, 180, 200}
OrderQuantities == {0, 5}
OrderTrailingAmounts == {None, Some(0), Some(5), Some(10)}
OrderTrailingPercents == {None, Some(5), Some(100)}

VARIABLES
    phase,      \* SpecOrder: "new", "live" (create returned an order), "rejected" (create raised)
    o,          \* SpecOrder: the order object under test
    fed,        \* SpecOrder: the prices passed to o.should_trigger since creation, in order
    ret,        \* SpecOrder: what the last should_trigger call returned
    args,       \* SpecOrder: the arguments of the create call made
    trig,       \* SpecOrder: what get_trigger_price returned, if it was the last call made
    orders,     \* OrderManager.orders: the orders in insertion order; an order's id is its index
    store,      \* the order file as last written by JsonFileRepository.save
    mpc,        \* monitor thread: where it is in _monitor_loop / _check_and_execute_orders
    positions,  \* monitor thread: the cycle's positions, stock code -> nominal_price
    active,     \* monitor thread: the ids of active_orders still to be processed, current one first
    cur_price,  \* monitor thread: current_price of the order being processed
    exc,        \* monitor thread: the message of the exception on its way to the except clause
    rpc,        \* request thread: "idle", or inside cancel_order / an update handler
    rid,        \* request thread: the order id of the request being handled
    rdata,      \* request thread: the update_data of the PATCH request being handled
    broker,     \* per order id, what the brokerage was asked and answered (history)
    rp,         \* SpecRepo: "build", "saved" (save returned), "loaded" (load returned)
    items,      \* SpecRepo: the orders passed to JsonFileRepository.save, in dict order
    loaded,     \* SpecRepo: the orders returned by OrderRepository.load, in dict order
    running,    \* start/stop: self.running of the service or manager
    monitor_thread, \* start/stop: self.monitor_thread, None or Some(thread number)
    threads,    \* start/stop: per Thread object created, where it is in _monitor_loop
    callers,    \* start/stop: per calling thread, where it is in start() or stop()
    cache,      \* TimedCache._cache: per key the list of (value, timestamp), oldest first
    now,        \* SpecCache: the clock read by datetime.now()
    ncalls,     \* SpecCache: get_or_fetch calls made (history)
    nfetch,     \* SpecCache: fetch_func calls made (history)
    flog,       \* SpecCache: per key, the values fetch_func returned, in call order (history)
    cret,       \* SpecCache: the last get_or_fetch call: its arguments and what it returned
    lock,       \* ThreadSafeTimedCache._lock: 0 when free, else the thread that holds it
    tcalls      \* ThreadSafeTimedCache: each thread's get_or_fetch call, where it is and what it saw

ovars == <<phase, o, fed, ret, args, trig>>
mvars == <<orders, store, mpc, positions, active, cur_price, exc, rpc, rid, rdata, broker>>
repovars == <<rp, items, loaded>>
tvars == <<running, monitor_thread, threads, callers>>
cvars == <<cache, now, ncalls, nfetch, flog, cret, lock, tcalls>>
xvars == <<repovars, tvars, cvars>>
vars == <<phase, o, fed, ret, args, trig, orders, store, mpc, positions, active, cur_price, exc,
          rpc, rid, rdata, broker, rp, items, loaded, running, monitor_thread, threads,
          callers, cache, now, ncalls, nfetch, flog, cret, lock, tcalls>>

NoOrder == [type |-> "none", status |-> "none"]

\* no create call made yet; no get_trigger_price call to report
NoArgs == [kind |-> "none"]
NotCalled == [called |-> FALSE, value |-> None]

(***************************************************************************)
(* core/orders/models.py: the order entities                               *)
(***************************************************************************)
\* A create that accepts trailing_amount and trailing_percent given together.
TrailingValid_AllowsBoth(trailing_amount, trailing_percent) ==
    /\ ~(trailing_amount = None /\ trailing_percent = None)
    /\ ~(trailing_amount # None /\ Val(trailing_amount) <= 0)
    /\ ~(trailing_percent # None /\ (Val(trailing_percent) <= 0 \/ Val(trailing_percent) >= 100))

\* create of either order class: the checks on the trailing options
TrailingValid(trailing_amount, trailing_percent) ==
    /\ ~(trailing_amount # None /\ trailing_percent # None)
    /\ ~(trailing_amount = None /\ trailing_percent = None)
    /\ ~(trailing_amount # None /\ Val(trailing_amount) <= 0)
    /\ ~(trailing_percent # None /\ (Val(trailing_percent) <= 0 \/ Val(trailing_percent) >= 100))

\* CustomTrailingStopSellOrder.create: TRUE when no ValueError is raised
SellCreateValid(min_price, quantity, trailing_amount, trailing_percent) ==
    /\ TrailingValid(trailing_amount, trailing_percent)
    /\ ~(min_price <= 0)
    /\ ~(quantity <= 0)

\* CustomTrailingStopSellOrder.create: the order returned
SellCreate(id, stock_code, min_price, quantity, trailing_amount, trailing_percent) ==
    [type |-> "sell", id |-> id, stock_code |-> stock_code, quantity |-> quantity,
     min_price |-> min_price,
     last_checked_price |-> None, error_message |-> None, comments |-> None,
     highest_price |-> 0,
     trailing_amount |-> trailing_amount, trailing_percent |-> trailing_percent,
     status |-> WAITING]

\* CustomTrailingStopBuyOrder.create: TRUE when no ValueError is raised
BuyCreateValid(max_price, quantity, trailing_amount, trailing_percent) ==
    /\ TrailingValid(trailing_amount, trailing_percent)
    /\ ~(max_price <= 0)
    /\ ~(quantity <= 0)

\* CustomTrailingStopBuyOrder.create: the order returned
BuyCreate(id, stock_code, max_price, quantity, trailing_amount, trailing_percent) ==
    [type |-> "buy", id |-> id, stock_code |-> stock_code, max_price |-> max_price,
     quantity |-> quantity,
     lowest_price |-> SENTINEL_LOWEST,
     status |-> WAITING,
     last_checked_price |-> None, error_message |-> None, comments |-> None,
     trailing_amount |-> trailing_amount, trailing_percent |-> trailing_percent]

\* A sell get_trigger_price that forgets to subtract the trail.
SellGetTriggerPrice_NoTrail(order) ==
    IF order.highest_price = 0 THEN None
    ELSE Some(order.highest_price * PercentBase)

\* A sell get_trigger_price without the "nothing observed yet" case.
SellGetTriggerPrice_NoSentinel(order) ==
    IF order.trailing_amount # None
    THEN Some((order.highest_price - Val(order.trailing_amount)) * PercentBase)
    ELSE IF order.trailing_percent # None
         THEN Some(order.highest_price * (PercentBase - Val(order.trailing_percent)))
    ELSE None

\* CustomTrailingStopSellOrder.get_trigger_price, in 1/PercentBase units
SellGetTriggerPrice(order) ==
    IF order.highest_price = 0 THEN None
    ELSE IF order.trailing_amount # None
         THEN Some((order.highest_price - Val(order.trailing_amount)) * PercentBase)
    ELSE IF order.trailing_percent # None
         THEN Some(order.highest_price * (PercentBase - Val(order.trailing_percent)))
    ELSE None

\* A should_trigger that needs the price strictly below the trigger price.
SellShouldTrigger_StrictlyBelow(order, current_price) ==
    IF order.status # WAITING THEN [order |-> order, result |-> FALSE]
    ELSE IF current_price > order.highest_price
         THEN [order |-> [order EXCEPT !.highest_price = current_price], result |-> FALSE]
    ELSE LET trigger_price == SellGetTriggerPrice(order) IN
         IF trigger_price = None THEN [order |-> order, result |-> FALSE]
         ELSE [order |-> order,
               result |-> /\ current_price * PercentBase < Val(trigger_price)
                          /\ current_price >= order.min_price
                          /\ order.highest_price >= order.min_price]

\* A should_trigger that does not look at min_price.
SellShouldTrigger_NoFloor(order, current_price) ==
    IF order.status # WAITING THEN [order |-> order, result |-> FALSE]
    ELSE IF current_price > order.highest_price
         THEN [order |-> [order EXCEPT !.highest_price = current_price], result |-> FALSE]
    ELSE LET trigger_price == SellGetTriggerPrice(order) IN
         IF trigger_price = None THEN [order |-> order, result |-> FALSE]
         ELSE [order |-> order,
               result |-> current_price * PercentBase <= Val(trigger_price)]

\* CustomTrailingStopSellOrder.should_trigger: the order afterwards and the value returned
SellShouldTrigger(order, current_price) ==
    IF order.status # WAITING THEN [order |-> order, result |-> FALSE]
    ELSE IF current_price > order.highest_price
         THEN [order |-> [order EXCEPT !.highest_price = current_price], result |-> FALSE]
    ELSE LET trigger_price == SellGetTriggerPrice(order) IN
         IF trigger_price = None THEN [order |-> order, result |-> FALSE]
         ELSE [order |-> order,
               result |-> /\ current_price * PercentBase <= Val(trigger_price)
                          /\ current_price >= order.min_price
                          /\ order.highest_price >= order.min_price]

\* the smaller of two prices (Python's min)
Min(a, b) == IF b < a THEN b ELSE a

\* An update_lowest_price that follows the price up as well as down.
UpdateLowestPrice_FollowsPrice(order, current_price) ==
    [order EXCEPT !.lowest_price = current_price]

\* CustomTrailingStopBuyOrder.update_lowest_price
UpdateLowestPrice(order, current_price) ==
    IF order.lowest_price = SENTINEL_LOWEST
    THEN [order EXCEPT !.lowest_price = current_price]
    ELSE [order EXCEPT !.lowest_price = Min(order.lowest_price, current_price)]

\* A buy get_trigger_price that trails below the low, as the sell rule does.
BuyGetTriggerPrice_Below(order) ==
    IF order.lowest_price = SENTINEL_LOWEST THEN None
    ELSE IF order.trailing_amount # None
         THEN Some((order.lowest_price - Val(order.trailing_amount)) * PercentBase)
    ELSE IF order.trailing_percent # None
         THEN Some(order.lowest_price * (PercentBase - Val(order.trailing_percent)))
    ELSE None

\* CustomTrailingStopBuyOrder.get_trigger_price, in 1/PercentBase units
BuyGetTriggerPrice(order) ==
    IF order.lowest_price = SENTINEL_LOWEST THEN None
    ELSE IF order.trailing_amount # None
         THEN Some((order.lowest_price + Val(order.trailing_amount)) * PercentBase)
    ELSE IF order.trailing_percent # None
         THEN Some(order.lowest_price * (PercentBase + Val(order.trailing_percent)))
    ELSE None

\* CustomTrailingStopBuyOrder.should_trigger: the order afterwards and the value returned
BuyShouldTrigger(order, current_price) ==
    IF order.status # WAITING THEN [order |-> order, result |-> FALSE]
    ELSE LET updated == UpdateLowestPrice(order, current_price)
             trigger_price == BuyGetTriggerPrice(updated) IN
         IF trigger_price = None THEN [order |-> updated, result |-> FALSE]
         ELSE [order |-> updated,
               result |-> /\ current_price * PercentBase <= Val(trigger_price)
                          /\ current_price <= updated.max_price
                          /\ updated.lowest_price <= updated.max_price]

\* order.should_trigger(current_price), dispatched on the order's class
ShouldTrigger(order, current_price) ==
    IF order.type = "sell" THEN SellShouldTrigger(order, current_price)
    ELSE BuyShouldTrigger(order, current_price)

(***************************************************************************)
(* core/orders/services.py: status predicates and status changes           *)
(***************************************************************************)
\* A can_cancel_order that lets every order be cancelled.
CanCancelOrder_AnyStatus(order) == TRUE

\* TrailingStop{Sell,Buy}OrderService.can_cancel_order
CanCancelOrder(order) == order.status = WAITING

\* An is_order_waiting that also takes orders in ERROR.
IsOrderWaiting_OrError(order) == order.status \in {WAITING, ERROR}

\* TrailingStop{Sell,Buy}OrderService.is_order_waiting
IsOrderWaiting(order) == order.status = WAITING

\* OrderManager.cancel_order: the assignment to order.status
CancelStatus(order) == [order EXCEPT !.status = CANCELLED]

(***************************************************************************)
(* SpecOrder: one order object, created by a factory and then driven by    *)
(* should_trigger calls.                                                   *)
(***************************************************************************)
OrderInit ==
    /\ phase = "new"
    /\ o = NoOrder
    /\ fed = <<>>
    /\ ret = FALSE
    /\ args = NoArgs
    /\ trig = NotCalled

\* CustomTrailingStopSellOrder.create(...) with inputs from the bounded sets
OrderCreateSell ==
    /\ phase = "new"
    /\ \E min_price \in OrderThresholds, quantity \in OrderQuantities,
          ta \in OrderTrailingAmounts, tp \in OrderTrailingPercents :
          /\ args' = [kind |-> "sell", threshold |-> min_price, quantity |-> quantity,
                       trailing_amount |-> ta, trailing_percent |-> tp]
          /\ IF SellCreateValid(min_price, quantity, ta, tp)
             THEN /\ o' = SellCreate(1, "AAPL", min_price, quantity, ta, tp)
                  /\ phase' = "live"
             ELSE /\ o' = o
                  /\ phase' = "rejected"
    /\ UNCHANGED <<fed, ret, trig>>
    /\ UNCHANGED <<mvars, xvars>>

\* CustomTrailingStopBuyOrder.create(...) with inputs from the bounded sets
OrderCreateBuy ==
    /\ phase = "new"
    /\ \E max_price \in OrderThresholds, quantity \in OrderQuantities,
          ta \in OrderTrailingAmounts, tp \in OrderTrailingPercents :
          /\ args' = [kind |-> "buy", threshold |-> max_price, quantity |-> quantity,
                       trailing_amount |-> ta, trailing_percent |-> tp]
          /\ IF BuyCreateValid(max_price, quantity, ta, tp)
             THEN /\ o' = BuyCreate(1, "TSLA", max_price, quantity, ta, tp)
                  /\ phase' = "live"
             ELSE /\ o' = o
                  /\ phase' = "rejected"
    /\ UNCHANGED <<fed, ret, trig>>
    /\ UNCHANGED <<mvars, xvars>>

\* o.should_trigger(p)
OrderShouldTrigger ==
    /\ phase = "live"
    /\ Len(fed) < MaxFed
    /\ \E p \in OrderPrices :
          LET r == ShouldTrigger(o, p) IN
          /\ o' = r.order
          /\ ret' = r.result
          /\ fed' = Append(fed, p)
    /\ trig' = NotCalled
    /\ UNCHANGED <<phase, args>>
    /\ UNCHANGED <<mvars, xvars>>

\* o.get_trigger_price()
OrderGetTriggerPrice ==
    /\ phase = "live"
    /\ trig' = [called |-> TRUE,
                value |-> IF o.type = "sell" THEN SellGetTriggerPrice(o)
                          ELSE BuyGetTriggerPrice(o)]
    /\ UNCHANGED <<phase, o, fed, ret, args>>
    /\ UNCHANGED <<mvars, xvars>>

\* the order is cancelled (OrderManager.cancel_order on a cancellable order)
OrderCancel ==
    /\ phase = "live"
    /\ CanCancelOrder(o)
    /\ o' = CancelStatus(o)
    /\ trig' = NotCalled
    /\ UNCHANGED <<phase, fed, ret, args>>
    /\ UNCHANGED <<mvars, xvars>>

OrderNext ==
    \/ OrderCreateSell
    \/ OrderCreateBuy
    \/ OrderShouldTrigger
    \/ OrderGetTriggerPrice
    \/ OrderCancel

(***************************************************************************)
(* Inputs of the manager-level specification (Spec)                        *)
(***************************************************************************)
Codes == {"US.AAA", "US.BBB"}
ManagerPrices == {0, 2, 3}
SellableQtys == {0, 1}

\* the bodies of POST /sell_orders and POST /buy_orders
NewOrderInputs ==
    { [type |-> "sell", stock_code |-> "US.AAA", threshold |-> 2, quantity |-> 1,
       trailing_amount |-> Some(1), trailing_percent |-> None],
      [type |-> "buy", stock_code |-> "US.AAA", threshold |-> 2, quantity |-> 1,
       trailing_amount |-> Some(1), trailing_percent |-> None] }

\* the bodies of PATCH /sell_orders/{id} and PATCH /buy_orders/{id}; threshold
\* is min_price of the sell handler and max_price of the buy handler
UpdateInputs ==
    { [threshold |-> None, quantity |-> None,
       trailing_amount |-> None, trailing_percent |-> Some(50)],
      [threshold |-> None, quantity |-> None,
       trailing_amount |-> Some(1), trailing_percent |-> Some(50)],
      [threshold |-> None, quantity |-> Some(0),
       trailing_amount |-> None, trailing_percent |-> None] }

\* An update model without field constraints.
UpdateValid_Unconstrained(data) == TRUE

\* TrailingStopSellOrderUpdate / TrailingStopBuyOrderUpdate: TRUE when the
\* body passes the field constraints and validate_trailing_options
UpdateValid(data) ==
    /\ data.threshold # None => Val(data.threshold) > 0
    /\ data.quantity # None => Val(data.quantity) > 0
    /\ data.trailing_amount # None => Val(data.trailing_amount) > 0
    /\ data.trailing_percent # None
          => (Val(data.trailing_percent) > 0 /\ Val(data.trailing_percent) < 100)
    /\ ~(data.trailing_amount # None /\ data.trailing_percent # None)

NoUpdate ==
    [threshold |-> None, quantity |-> None, trailing_amount |-> None, trailing_percent |-> None]

\* MoomooClient.get_current_positions as _check_and_execute_orders reads it:
\* stock code -> nominal_price.  The empty function stands for the empty list.
\* Orders are placed on US.AAA; US.BBB is another stock the account may hold.
CyclePositionResults ==
    { [c \in {} |-> 0] } \cup { [c \in {"US.AAA"} |-> p] : p \in ManagerPrices }
        \cup { [c \in {"US.BBB"} |-> 2] }
NoPositions == [c \in {} |-> 0]

\* one call of MoomooClient.get_current_positions by the cycle: it raises
\* (get_trade_context or the query fails), returns None, or returns a list
CycleFetchResults ==
    { [kind |-> "raise", pos |-> NoPositions], [kind |-> "none", pos |-> NoPositions] }
        \cup { [kind |-> "list", pos |-> p] : p \in CyclePositionResults }

\* A cycle that goes on unless the fetch raised or returned None.
PositionsUnavailable_NoneOnly(fetched) == fetched.kind # "list"

\* _check_and_execute_orders lines 123-126: the call raised, or `not positions`
PositionsUnavailable(fetched) ==
    fetched.kind # "list" \/ DOMAIN fetched.pos = {}

\* MoomooClient.get_current_positions as validate_new_order reads it:
\* stock code -> can_sell_qty (a list, possibly empty; None is chosen apart)
AddPositionResults == UNION { [S -> SellableQtys] : S \in SUBSET Codes }

\* one call of MoomooClient.get_current_positions by add_order: it raises,
\* returns None, or returns a list
AddFetchResults ==
    { [kind |-> "raise", pos |-> NoPositions], [kind |-> "none", pos |-> NoPositions] }
        \cup { [kind |-> "list", pos |-> p] : p \in AddPositionResults }

SellNoPositionMsg == "Cannot get data about a stock that hasn't already been bought"
LookupFailedMsg == "Could not get current price"

\* what a call that returns a price or raises ValueError yields
Raised(msg) == [raised |-> TRUE, msg |-> msg, price |-> 0]
Price(p) == [raised |-> FALSE, msg |-> "", price |-> p]

\* get_stock_price (the market-data lookup): a price, or ValueError
StockPriceResults ==
    { Raised(LookupFailedMsg) } \cup { Price(p) : p \in ManagerPrices }

\* the brokerage's answers inside execute_order: get_trade_context or
\* unlock_trade raising (place_order is then not reached), else unlock_trade
\* returning RET_OK or not and place_order returning RET_OK, not, or raising
BrokerOutcomes ==
    { [unlock |-> "raise", place |-> "none"],
      [unlock |-> "ok", place |-> "ok"], [unlock |-> "ok", place |-> "fail"],
      [unlock |-> "ok", place |-> "raise"],
      [unlock |-> "fail", place |-> "ok"], [unlock |-> "fail", place |-> "fail"] }

BrokerExceptionMsg == "brokerage call raised"
PlaceFailedMsg == "Failed to place order"

(***************************************************************************)
(* core/orders/services.py                                                 *)
(***************************************************************************)
\* A sell validate_new_order that only looks for a matching position.
SellValidateNewOrder_AnyQuantity(order, pos) == order.stock_code \in DOMAIN pos

\* TrailingStopSellOrderService.validate_new_order: TRUE when no ValueError is raised
SellValidateNewOrder(order, pos) ==
    /\ order.stock_code \in DOMAIN pos
    /\ ~(pos[order.stock_code] < order.quantity)

\* TrailingStopBuyOrderService.validate_new_order: never raises
BuyValidateNewOrder(order, pos) == TRUE

ValidateNewOrder(order, pos) ==
    IF order.type = "sell" THEN SellValidateNewOrder(order, pos)
    ELSE BuyValidateNewOrder(order, pos)

\* TrailingStopSellOrderService.get_current_price
SellGetCurrentPrice(order, pos) ==
    IF order.stock_code \notin DOMAIN pos
    THEN Raised(SellNoPositionMsg)
    ELSE Price(pos[order.stock_code])

\* TrailingStopBuyOrderService.get_current_price; lookup is what
\* get_stock_price yields if it is called
BuyGetCurrentPrice(order, pos, lookup) ==
    IF order.stock_code \in DOMAIN pos
    THEN Price(pos[order.stock_code])
    ELSE lookup

GetCurrentPrice(order, pos, lookup) ==
    IF order.type = "sell" THEN SellGetCurrentPrice(order, pos)
    ELSE BuyGetCurrentPrice(order, pos, lookup)

\* A set_error_status that records the message and puts the order back to WAITING.
SetErrorStatus_BackToWaiting(order, error_msg) ==
    [order EXCEPT !.status = WAITING, !.error_message = Some(error_msg)]

\* set_error_status of either service
SetErrorStatus(order, error_msg) ==
    [order EXCEPT !.status = ERROR, !.error_message = Some(error_msg)]

\* execute_order of either service, up to the brokerage interaction
ExecuteOrderBegin(order) == [order EXCEPT !.status = TRIGGERED]

\* An execute_order that records a rejected placement without raising.
ExecuteOrderEnd_Swallows(order, unlock, place) ==
    IF unlock = "raise" \/ place = "raise"
    THEN [order |-> SetErrorStatus(order, BrokerExceptionMsg),
          raised |-> TRUE, msg |-> BrokerExceptionMsg]
    ELSE IF place # "ok"
    THEN [order |-> SetErrorStatus(order, PlaceFailedMsg),
          raised |-> FALSE, msg |-> ""]
    ELSE [order |-> [order EXCEPT !.status = COMPLETED], raised |-> FALSE, msg |-> ""]

\* execute_order of either service, from the brokerage's answers on: the
\* order afterwards, whether execute_order raises, and the exception's text
ExecuteOrderEnd(order, unlock, place) ==
    IF unlock = "raise" \/ place = "raise"
    THEN [order |-> SetErrorStatus(order, BrokerExceptionMsg),
          raised |-> TRUE, msg |-> BrokerExceptionMsg]
    ELSE IF place # "ok"
    THEN [order |-> SetErrorStatus(order, PlaceFailedMsg),
          raised |-> TRUE, msg |-> PlaceFailedMsg]
    ELSE [order |-> [order EXCEPT !.status = COMPLETED], raised |-> FALSE, msg |-> ""]

(***************************************************************************)
(* core/orders/repositories.py, routes/orders.py                           *)
(***************************************************************************)
\* the members of CustomOrderStatus
Statuses == {WAITING, TRIGGERED, COMPLETED, CANCELLED, ERROR}

\* the datetime fields that always hold a datetime; last_check_time, the
\* third field written with isoformat(), is Optional
DateFields == {"created_at", "updated_at"}

\* a datetime object, at(n) being n microseconds after some epoch
DateTime(n) == [datetime |-> n]

\* datetime.isoformat(): the text written for a datetime (microseconds kept)
IsoFormat(dt) == [iso |-> dt.datetime]

\* datetime.fromisoformat(): the datetime parsed from such a text
FromIsoFormat(text) == [datetime |-> text.iso]

\* CustomOrderStatus.value: the text written for a status
StatusValue(status) == [enum_value |-> status]

\* CustomOrderStatus(text): the member whose value is the text
StatusEnum(text) == CHOOSE status \in Statuses : StatusValue(status) = text

\* JsonFileRepository.save: one record of the file (asdict of the order with
\* the datetimes and the status turned into text; the order's class is not
\* written)
SerializeOrder(order) ==
    [f \in (DOMAIN order) \ {"type"} |->
        IF f \in DateFields THEN IsoFormat(order[f])
        ELSE IF f = "last_check_time" /\ order[f] # None
             THEN Some(IsoFormat(Val(order[f])))
        ELSE IF f = "status" THEN StatusValue(order[f])
        ELSE order[f]]

\* JsonFileRepository.save: the file written for the order map
Serialize(ords) == [i \in 1..Len(ords) |-> SerializeOrder(ords[i])]

\* OrderManager._save_orders: the file afterwards
SaveOrders(ords) == Serialize(ords)

\* an order file that json.load cannot parse
CorruptStore == <<[unparsable |-> TRUE]>>

\* the order file found at startup: none or an empty list, or an unparsable one
InitialStores == { <<>>, CorruptStore }

\* OrderRepository._determine_order_type
DetermineOrderType(rec) ==
    IF "min_price" \in DOMAIN rec THEN "sell"
    ELSE IF "max_price" \in DOMAIN rec THEN "buy"
    ELSE "none"

\* A load that leaves last_check_time as the text found in the file.
DeserializeOrder_KeepsText(rec) ==
    [f \in (DOMAIN rec) \cup {"type"} |->
        IF f = "type" THEN DetermineOrderType(rec)
        ELSE IF f \in DateFields THEN FromIsoFormat(rec[f])
        ELSE IF f = "status" THEN StatusEnum(rec[f])
        ELSE rec[f]]

\* OrderRepository.load: the order object built from one record (datetimes
\* parsed, last_check_time only when set; status looked up; class chosen)
DeserializeOrder(rec) ==
    [f \in (DOMAIN rec) \cup {"type"} |->
        IF f = "type" THEN DetermineOrderType(rec)
        ELSE IF f \in DateFields THEN FromIsoFormat(rec[f])
        ELSE IF f = "last_check_time" /\ rec[f] # None
             THEN Some(FromIsoFormat(Val(rec[f])))
        ELSE IF f = "status" THEN StatusEnum(rec[f])
        ELSE rec[f]]

\* OrderRepository.load for the files of the manager part, whose records,
\* like its orders, are modelled without timestamps: the exception re-raised
\* for an unparsable file, else the orders of the records whose type is
\* recognised
RepositoryLoad(file) ==
    IF file = CorruptStore
    THEN [raised |-> TRUE, orders |-> <<>>]
    ELSE LET known == SelectSeq(file, LAMBDA rec : DetermineOrderType(rec) # "none")
         IN [raised |-> FALSE,
             orders |-> [i \in 1..Len(known) |-> DeserializeOrder(known[i])]]

\* load, lines 97-99: order_data["created_at"] and order_data["updated_at"]
\* are read and parsed for every record, before its type is determined
HasDates(rec) == DateFields \subseteq DOMAIN rec

\* OrderRepository.load for files whose records are modelled in full: a
\* record without created_at or updated_at raises KeyError, which load
\* re-raises like any other exception
RepositoryLoadDated(file) ==
    IF file # CorruptStore /\ \E i \in 1..Len(file) : ~HasDates(file[i])
    THEN [raised |-> TRUE, orders |-> <<>>]
    ELSE RepositoryLoad(file)

\* OrderManager._load_orders: self.orders afterwards (empty if load raised)
LoadOrders(file) ==
    IF RepositoryLoad(file).raised THEN <<>> ELSE RepositoryLoad(file).orders

\* update_sell_order / update_buy_order: the field assignments
ApplyUpdate(order, data) ==
    LET o1 == IF data.threshold = None THEN order
              ELSE IF order.type = "sell"
                   THEN [order EXCEPT !.min_price = Val(data.threshold)]
                   ELSE [order EXCEPT !.max_price = Val(data.threshold)]
        o2 == IF data.quantity = None THEN o1
              ELSE [o1 EXCEPT !.quantity = Val(data.quantity)]
        o3 == IF data.trailing_amount = None THEN o2
              ELSE [o2 EXCEPT !.trailing_amount = data.trailing_amount,
                              !.trailing_percent = None]
        o4 == IF data.trailing_percent = None THEN o3
              ELSE [o3 EXCEPT !.trailing_percent = data.trailing_percent,
                              !.trailing_amount = None]
    IN o4

(***************************************************************************)
(* core/orders/managers.py: OrderManager                                   *)
(***************************************************************************)
Ids(n) == [i \in 1..n |-> i]

\* A snapshot that holds the first waiting order only.
GetActiveOrders_FirstOnly(ords) ==
    LET waiting == SelectSeq(Ids(Len(ords)), LAMBDA i : IsOrderWaiting(ords[i]))
    IN  IF waiting = <<>> THEN <<>> ELSE <<Head(waiting)>>

\* OrderManager.get_active_orders: the ids of the waiting orders, in map order
GetActiveOrders(ords) ==
    SelectSeq(Ids(Len(ords)), LAMBDA i : IsOrderWaiting(ords[i]))

\* the order built by the create factory for a POST body
CreateOrder(id, inp) ==
    IF inp.type = "sell"
    THEN SellCreate(id, inp.stock_code, inp.threshold, inp.quantity,
                    inp.trailing_amount, inp.trailing_percent)
    ELSE BuyCreate(id, inp.stock_code, inp.threshold, inp.quantity,
                   inp.trailing_amount, inp.trailing_percent)

NoBroker == [calls |-> 0, unlock |-> "none", place |-> "none", later_cycle |-> FALSE]

ManagerInit ==
    /\ store \in InitialStores
    /\ orders = LoadOrders(store)
    /\ mpc = "sleep"
    /\ positions = NoPositions
    /\ active = <<>>
    /\ cur_price = 0
    /\ exc = ""
    /\ rpc = "idle"
    /\ rid = 0
    /\ rdata = NoUpdate
    /\ broker = [i \in 1..Len(orders) |-> NoBroker]

\* A loop that is left for the final save after the first order processed.
AfterOrder_LeavesLoop(act) == "save"

\* where the for loop of _check_and_execute_orders goes after the current order
AfterOrder(act) == IF Tail(act) = <<>> THEN "save" ELSE "price"

\* _check_and_execute_orders, lines 123-128: fetch the positions, leave the
\* cycle if there are none (by return, or by the exception that goes up to
\* _monitor_loop), else take the snapshot of the active orders
CycleStart ==
    /\ mpc = "sleep"
    /\ \E fetched \in CycleFetchResults :
          IF PositionsUnavailable(fetched)
          THEN /\ mpc' = "skip"
               /\ UNCHANGED <<positions, active, broker>>
          ELSE /\ positions' = fetched.pos
               /\ active' = GetActiveOrders(orders)
               /\ mpc' = IF active' = <<>> THEN "save" ELSE "price"
               /\ broker' = [i \in 1..Len(broker) |->
                                IF broker[i].calls > 0
                                THEN [broker[i] EXCEPT !.later_cycle = TRUE]
                                ELSE broker[i]]
    /\ UNCHANGED <<orders, store, cur_price, exc, rpc, rid, rdata>>
    /\ UNCHANGED <<ovars, xvars>>

\* lines 132-142: get_current_price, the tracking fields, the falsy-price skip
CycleGetPrice ==
    /\ mpc = "price"
    /\ LET id == Head(active) IN
       \E lookup \in StockPriceResults :
          LET r == GetCurrentPrice(orders[id], positions, lookup) IN
          IF r.raised
          THEN /\ mpc' = "handler"
               /\ exc' = r.msg
               /\ UNCHANGED <<orders, active, cur_price>>
          ELSE /\ orders' = [orders EXCEPT ![id].last_checked_price = Some(r.price)]
               /\ exc' = exc
               /\ IF r.price = 0
                  THEN /\ active' = Tail(active)
                       /\ mpc' = AfterOrder(active)
                       /\ cur_price' = cur_price
                  ELSE /\ active' = active
                       /\ mpc' = "check"
                       /\ cur_price' = r.price
    /\ UNCHANGED <<store, positions, rpc, rid, rdata, broker>>
    /\ UNCHANGED <<ovars, xvars>>

\* lines 145-146: should_trigger and, when it returns true, the comment
CycleShouldTrigger ==
    /\ mpc = "check"
    /\ LET id == Head(active)
           r == ShouldTrigger(orders[id], cur_price) IN
       IF r.result
       THEN /\ orders' = [orders EXCEPT ![id] = [r.order EXCEPT !.comments = Some(cur_price)]]
            /\ mpc' = "trigger"
            /\ active' = active
       ELSE /\ orders' = [orders EXCEPT ![id] = r.order]
            /\ mpc' = AfterOrder(active)
            /\ active' = Tail(active)
    /\ cur_price' = 0
    /\ UNCHANGED <<store, positions, exc, rpc, rid, rdata, broker>>
    /\ UNCHANGED <<ovars, xvars>>

\* line 147, execute_order lines 88-89: the order becomes TRIGGERED
CycleExecuteBegin ==
    /\ mpc = "trigger"
    /\ orders' = [orders EXCEPT ![Head(active)] = ExecuteOrderBegin(@)]
    /\ mpc' = "exec"
    /\ UNCHANGED <<store, positions, active, cur_price, exc, rpc, rid, rdata, broker>>
    /\ UNCHANGED <<ovars, xvars>>

\* execute_order lines 91-118: the brokerage interaction and what follows it
CycleExecuteEnd ==
    /\ mpc = "exec"
    /\ LET id == Head(active) IN
       \E b \in BrokerOutcomes :
          LET r == ExecuteOrderEnd(orders[id], b.unlock, b.place) IN
          /\ orders' = [orders EXCEPT ![id] = r.order]
          /\ broker' = [broker EXCEPT ![id] =
                           [@ EXCEPT !.calls = @ + (IF b.place = "none" THEN 0 ELSE 1),
                                     !.unlock = b.unlock, !.place = b.place]]
          /\ IF r.raised
             THEN /\ mpc' = "handler"
                  /\ exc' = r.msg
                  /\ active' = active
             ELSE /\ mpc' = AfterOrder(active)
                  /\ exc' = exc
                  /\ active' = Tail(active)
    /\ UNCHANGED <<store, positions, cur_price, rpc, rid, rdata>>
    /\ UNCHANGED <<ovars, xvars>>

\* lines 149-152: the except clause of the per-order try
CycleHandler ==
    /\ mpc = "handler"
    /\ orders' = [orders EXCEPT ![Head(active)] = SetErrorStatus(@, exc)]
    /\ exc' = ""
    /\ mpc' = AfterOrder(active)
    /\ active' = Tail(active)
    /\ UNCHANGED <<store, positions, cur_price, rpc, rid, rdata, broker>>
    /\ UNCHANGED <<ovars, xvars>>

\* _monitor_loop lines 161-164 after a cycle without positions: the error is
\* logged and the loop sleeps
CycleSkip ==
    /\ mpc = "skip"
    /\ mpc' = "sleep"
    /\ UNCHANGED <<orders, store, positions, active, cur_price, exc, rpc, rid, rdata, broker>>
    /\ UNCHANGED <<ovars, xvars>>

\* line 154: _save_orders at the end of the cycle; the loop then sleeps
CycleSave ==
    /\ mpc = "save"
    /\ store' = SaveOrders(orders)
    /\ mpc' = "sleep"
    /\ positions' = NoPositions
    /\ UNCHANGED <<orders, active, cur_price, exc, rpc, rid, rdata, broker>>
    /\ UNCHANGED <<ovars, xvars>>

\* OrderManager.add_order: how the call ends.  "error": the position fetch
\* raised; "returned": positions is None, logged, return; "raised":
\* validate_new_order raised ValueError; "added": the order is in the map
AddOrderOutcome(order, fetched) ==
    IF fetched.kind = "raise" THEN "error"
    ELSE IF fetched.kind = "none" THEN "returned"
    ELSE IF ~ValidateNewOrder(order, fetched.pos) THEN "raised"
    ELSE "added"

\* OrderManager.add_order: the order map afterwards
AddOrderOrders(ords, order, fetched) ==
    IF AddOrderOutcome(order, fetched) = "added" THEN Append(ords, order) ELSE ords

\* OrderManager.add_order: the order file afterwards
AddOrderStore(ords, file, order, fetched) ==
    IF AddOrderOutcome(order, fetched) = "added"
    THEN SaveOrders(AddOrderOrders(ords, order, fetched))
    ELSE file

\* POST /sell_orders, POST /buy_orders: create, then OrderManager.add_order
AddOrder ==
    /\ rpc = "idle"
    /\ Len(orders) < MaxOrders
    /\ \E inp \in NewOrderInputs, fetched \in AddFetchResults :
          LET order == CreateOrder(Len(orders) + 1, inp) IN
          /\ orders' = AddOrderOrders(orders, order, fetched)
          /\ store' = AddOrderStore(orders, store, order, fetched)
          /\ broker' = IF AddOrderOutcome(order, fetched) = "added"
                        THEN Append(broker, NoBroker) ELSE broker
    /\ UNCHANGED <<mpc, positions, active, cur_price, exc, rpc, rid, rdata>>
    /\ UNCHANGED <<ovars, xvars>>

\* cancel_order lines 89-95: "not_found" and "invalid_state" are the two
\* ValueErrors raised, "ok" lets the call go on to the status assignment
CancelOrderOutcome(ords, id) ==
    IF id > Len(ords) THEN "not_found"
    ELSE IF ~CanCancelOrder(ords[id]) THEN "invalid_state"
    ELSE "ok"

\* DELETE handler and cancel_order lines 89-95: look the order up, check
\* can_cancel_order
CancelCheck ==
    /\ rpc = "idle"
    /\ \E id \in 1..MaxOrders :
          IF CancelOrderOutcome(orders, id) = "ok"
          THEN rpc' = "cancel" /\ rid' = id
          ELSE UNCHANGED <<rpc, rid>>
    /\ UNCHANGED <<orders, store, mpc, positions, active, cur_price, exc, rdata, broker>>
    /\ UNCHANGED <<ovars, xvars>>

\* cancel_order lines 97-103: set CANCELLED, save
CancelWrite ==
    /\ rpc = "cancel"
    /\ orders' = [orders EXCEPT ![rid] = CancelStatus(@)]
    /\ store' = SaveOrders(orders')
    /\ rpc' = "idle"
    /\ rid' = 0
    /\ UNCHANGED <<mpc, positions, active, cur_price, exc, rdata, broker>>
    /\ UNCHANGED <<ovars, xvars>>

\* update_sell_order / update_buy_order up to the status check; a body that
\* fails the update model's validation does not reach the handler
UpdateCheck ==
    /\ rpc = "idle"
    /\ \E id \in 1..MaxOrders, data \in UpdateInputs :
          IF ~UpdateValid(data)
          THEN UNCHANGED <<rpc, rid, rdata>>
          ELSE IF id > Len(orders)
          THEN UNCHANGED <<rpc, rid, rdata>>
          ELSE IF orders[id].status # WAITING
          THEN UNCHANGED <<rpc, rid, rdata>>
          ELSE rpc' = "update" /\ rid' = id /\ rdata' = data
    /\ UNCHANGED <<orders, store, mpc, positions, active, cur_price, exc, broker>>
    /\ UNCHANGED <<ovars, xvars>>

\* update_sell_order / update_buy_order: the field assignments and the save
UpdateWrite ==
    /\ rpc = "update"
    /\ orders' = [orders EXCEPT ![rid] = ApplyUpdate(@, rdata)]
    /\ store' = SaveOrders(orders')
    /\ rpc' = "idle"
    /\ rid' = 0
    /\ rdata' = NoUpdate
    /\ UNCHANGED <<mpc, positions, active, cur_price, exc, broker>>
    /\ UNCHANGED <<ovars, xvars>>

(***************************************************************************)
(* SpecRepo: a TrailingStopOrderRepository is given a collection of orders *)
(* to save and is then asked to load the file.                             *)
(***************************************************************************)
\* the dataclass fields that the manager part of the model leaves out
Stamps(created, updated, checked) ==
    [created_at |-> DateTime(created), updated_at |-> DateTime(updated),
     last_check_time |-> checked]

\* sell and buy orders as a manager can hold them, with the given id: fresh
\* from create (extremum unset) and after cycles have worked on them
RepoOrders(id) ==
    LET sell == SellCreate(id, "AAPL", 180, 5, Some(5), None)
        buy == BuyCreate(id, "TSLA", 200, 5, None, Some(5))
    IN { sell @@ Stamps(1, 1, None),
         [sell EXCEPT !.highest_price = 190, !.last_checked_price = Some(185),
                      !.status = COMPLETED] @@ Stamps(1, 4, Some(DateTime(4))),
         [sell EXCEPT !.status = CANCELLED] @@ Stamps(2, 3, None),
         buy @@ Stamps(2, 2, None),
         [buy EXCEPT !.lowest_price = 180, !.last_checked_price = Some(180),
                     !.status = ERROR, !.error_message = Some("Failed to place buy order")]
             @@ Stamps(1, 5, Some(DateTime(5))) }

RepoIdle ==
    /\ rp = "build"
    /\ items = <<>>
    /\ loaded = <<>>

\* one more order is put into the collection that will be saved
RepoPut ==
    /\ rp = "build"
    /\ Len(items) < MaxItems
    /\ \E order \in RepoOrders(Len(items) + 1) : items' = Append(items, order)
    /\ UNCHANGED <<rp, loaded>>
    /\ UNCHANGED <<ovars, mvars, tvars, cvars>>

\* repository.save(items)
RepoSave ==
    /\ rp = "build"
    /\ store' = Serialize(items)
    /\ rp' = "saved"
    /\ UNCHANGED <<items, loaded>>
    /\ UNCHANGED <<ovars, orders, mpc, positions, active, cur_price, exc, rpc, rid, rdata,
                   broker, tvars, cvars>>

\* repository.load()
RepoLoad ==
    /\ rp = "saved"
    /\ ~RepositoryLoadDated(store).raised
    /\ loaded' = RepositoryLoadDated(store).orders
    /\ rp' = "loaded"
    /\ UNCHANGED items
    /\ UNCHANGED <<ovars, mvars, tvars, cvars>>

RepoNext ==
    \/ RepoPut
    \/ RepoSave
    \/ RepoLoad

(***************************************************************************)
(* core/utilities/threaded_service.py: ThreadedService, and the same       *)
(* start / stop / _monitor_loop of OrderManager (core/orders/managers.py). *)
(* A Thread object is "new" until started, then moves through the loop:    *)
(* "test" (the while condition), "run" (inside run() or                    *)
(* _check_and_execute_orders()), "except" (the except clause), "sleep",    *)
(* and "done" once the loop has ended.                                     *)
(***************************************************************************)
AllCallers == {1, 2}

CallerIdle == [pc |-> "idle", target |-> 0, last |-> "none"]

\* a call returns (or raises) with the given outcome
Returned(outcome) == [pc |-> "idle", target |-> 0, last |-> outcome]

\* the caller moves on inside its call
At(c, pc) == [callers EXCEPT ![c].pc = pc]

\* the loop positions of a thread that has been started and has not ended
Alive == {"test", "run", "except", "sleep"}

\* start() calls that are past the check and have not created their thread
StartsPending == Cardinality({c \in AllCallers : callers[c].pc \in {"start_set", "start_create"}})

ThreadsIdle ==
    /\ running = FALSE
    /\ monitor_thread = None
    /\ threads = <<>>
    /\ callers = [c \in AllCallers |-> CallerIdle]

\* A start() without the "already running" check.
StartReturnsEarly_Never(is_running) == FALSE

\* start: "if self.running: return"
StartReturnsEarly(is_running) == is_running

\* start(): the call is made and self.running is tested
StartCall(c) ==
    /\ callers[c].pc = "idle"
    /\ Len(threads) + StartsPending < MaxThreads
    /\ callers' = IF StartReturnsEarly(running)
                   THEN [callers EXCEPT ![c] = Returned("start: already running")]
                   ELSE At(c, "start_set")
    /\ UNCHANGED <<running, monitor_thread, threads>>
    /\ UNCHANGED <<ovars, mvars, repovars, cvars>>

\* start(): self.running = True
StartSetRunning(c) ==
    /\ callers[c].pc = "start_set"
    /\ running' = TRUE
    /\ callers' = At(c, "start_create")
    /\ UNCHANGED <<monitor_thread, threads>>
    /\ UNCHANGED <<ovars, mvars, repovars, cvars>>

\* start(): self.monitor_thread = threading.Thread(target=self._monitor_loop)
StartCreate(c) ==
    /\ callers[c].pc = "start_create"
    /\ threads' = Append(threads, "new")
    /\ monitor_thread' = Some(Len(threads) + 1)
    /\ callers' = At(c, "start_launch")
    /\ UNCHANGED running
    /\ UNCHANGED <<ovars, mvars, repovars, cvars>>

\* start(): self.monitor_thread.start(), on whatever self.monitor_thread
\* holds by now; AttributeError on None, RuntimeError on a started thread
StartLaunch(c) ==
    /\ callers[c].pc = "start_launch"
    /\ IF monitor_thread # None /\ threads[Val(monitor_thread)] = "new"
       THEN /\ threads' = [threads EXCEPT ![Val(monitor_thread)] = "test"]
            /\ callers' = [callers EXCEPT ![c] = Returned("start: started")]
       ELSE /\ threads' = threads
            /\ callers' = [callers EXCEPT ![c] = Returned("start: raised")]
    /\ UNCHANGED <<running, monitor_thread>>
    /\ UNCHANGED <<ovars, mvars, repovars, cvars>>

\* ThreadedService.stop(): the call is made and "if not self.running: return"
ServiceStopCall(c) ==
    /\ callers[c].pc = "idle"
    /\ callers' = IF ~running
                   THEN [callers EXCEPT ![c] = Returned("stop: not running")]
                   ELSE At(c, "stop_set")
    /\ UNCHANGED <<running, monitor_thread, threads>>
    /\ UNCHANGED <<ovars, mvars, repovars, cvars>>

\* ThreadedService.stop(): self.running = False
ServiceStopSet(c) ==
    /\ callers[c].pc = "stop_set"
    /\ running' = FALSE
    /\ callers' = At(c, "stop_test")
    /\ UNCHANGED <<monitor_thread, threads>>
    /\ UNCHANGED <<ovars, mvars, repovars, cvars>>

\* OrderManager.stop(): the call is made and self.running = False
ManagerStopCall(c) ==
    /\ callers[c].pc = "idle"
    /\ running' = FALSE
    /\ callers' = At(c, "stop_test")
    /\ UNCHANGED <<monitor_thread, threads>>
    /\ UNCHANGED <<ovars, mvars, repovars, cvars>>

\* stop(): "if self.monitor_thread:"
StopTest(c) ==
    /\ callers[c].pc = "stop_test"
    /\ callers' = IF monitor_thread = None
                   THEN [callers EXCEPT ![c] = Returned("stop: stopped")]
                   ELSE At(c, "stop_join")
    /\ UNCHANGED <<running, monitor_thread, threads>>
    /\ UNCHANGED <<ovars, mvars, repovars, cvars>>

\* stop(): self.monitor_thread.join() is called, on whatever
\* self.monitor_thread holds by now; AttributeError on None, RuntimeError on
\* a thread that was not started
StopJoinCall(c) ==
    /\ callers[c].pc = "stop_join"
    /\ callers' = IF monitor_thread = None \/ threads[Val(monitor_thread)] = "new"
                   THEN [callers EXCEPT ![c] = Returned("stop: raised")]
                   ELSE [callers EXCEPT ![c].pc = "stop_wait",
                                        ![c].target = Val(monitor_thread)]
    /\ UNCHANGED <<running, monitor_thread, threads>>
    /\ UNCHANGED <<ovars, mvars, repovars, cvars>>

\* A join() that returns while the thread is still in its loop.
Joined_NoWait(thread_pc) == TRUE

\* Thread.join(): returns once the thread has ended
Joined(thread_pc) == thread_pc = "done"

\* stop(): join() returns
StopJoinReturn(c) ==
    /\ callers[c].pc = "stop_wait"
    /\ Joined(threads[callers[c].target])
    /\ callers' = At(c, "stop_clear")
    /\ UNCHANGED <<running, monitor_thread, threads>>
    /\ UNCHANGED <<ovars, mvars, repovars, cvars>>

\* stop(): self.monitor_thread = None, and the call returns
StopClear(c) ==
    /\ callers[c].pc = "stop_clear"
    /\ monitor_thread' = None
    /\ callers' = [callers EXCEPT ![c] = Returned("stop: stopped")]
    /\ UNCHANGED <<running, threads>>
    /\ UNCHANGED <<ovars, mvars, repovars, cvars>>

\* A loop that ends when run() raises.
AfterRaise_EndsLoop == "done"

\* _monitor_loop: "except Exception" logs and the loop goes on to sleep
AfterRaise == "except"

\* _monitor_loop: "while self.running"
LoopTest(t) ==
    /\ threads[t] = "test"
    /\ threads' = [threads EXCEPT ![t] = IF running THEN "run" ELSE "done"]
    /\ UNCHANGED <<running, monitor_thread, callers>>
    /\ UNCHANGED <<ovars, mvars, repovars, cvars>>

\* _monitor_loop: run() (or _check_and_execute_orders()) returns
LoopRunReturns(t) ==
    /\ threads[t] = "run"
    /\ threads' = [threads EXCEPT ![t] = "sleep"]
    /\ UNCHANGED <<running, monitor_thread, callers>>
    /\ UNCHANGED <<ovars, mvars, repovars, cvars>>

\* _monitor_loop: run() (or _check_and_execute_orders()) raises
LoopRunRaises(t) ==
    /\ threads[t] = "run"
    /\ threads' = [threads EXCEPT ![t] = AfterRaise]
    /\ UNCHANGED <<running, monitor_thread, callers>>
    /\ UNCHANGED <<ovars, mvars, repovars, cvars>>

\* _monitor_loop: the except clause has logged the error
LoopExcept(t) ==
    /\ threads[t] = "except"
    /\ threads' = [threads EXCEPT ![t] = "sleep"]
    /\ UNCHANGED <<running, monitor_thread, callers>>
    /\ UNCHANGED <<ovars, mvars, repovars, cvars>>

\* _monitor_loop: time.sleep(...) returns
LoopSleep(t) ==
    /\ threads[t] = "sleep"
    /\ threads' = [threads EXCEPT ![t] = "test"]
    /\ UNCHANGED <<running, monitor_thread, callers>>
    /\ UNCHANGED <<ovars, mvars, repovars, cvars>>

\* one step of one monitor thread
LoopStep ==
    \E t \in 1..Len(threads) :
        \/ LoopTest(t)
        \/ LoopRunReturns(t)
        \/ LoopRunRaises(t)
        \/ LoopExcept(t)
        \/ LoopSleep(t)

\* the threads that call start() and stop(): one for a ThreadedService as
\* its tests use it, one or two for an OrderManager
ServiceCallers == {1}
SerialCallers == {1}
RacingCallers == {1, 2}

\* ThreadedService driven by one thread
ServiceNext ==
    \/ \E c \in ServiceCallers :
          \/ StartCall(c)
          \/ StartSetRunning(c)
          \/ StartCreate(c)
          \/ StartLaunch(c)
          \/ ServiceStopCall(c)
          \/ ServiceStopSet(c)
          \/ StopTest(c)
          \/ StopJoinCall(c)
          \/ StopJoinReturn(c)
          \/ StopClear(c)
    \/ LoopStep

\* OrderManager.start / stop called by the given threads
ManagerCalls(cs) ==
    \E c \in cs :
        \/ StartCall(c)
        \/ StartSetRunning(c)
        \/ StartCreate(c)
        \/ StartLaunch(c)
        \/ ManagerStopCall(c)
        \/ StopTest(c)
        \/ StopJoinCall(c)
        \/ StopJoinReturn(c)
        \/ StopClear(c)

\* OrderManager started and stopped by one thread
SerialNext ==
    \/ ManagerCalls(SerialCallers)
    \/ LoopStep

\* OrderManager started and stopped by two threads
RacingNext ==
    \/ ManagerCalls(RacingCallers)
    \/ LoopStep

(***************************************************************************)
(* SpecCrash: the process can die while the monitor thread is at work.     *)
(* JsonFileRepository.save is split here into its two effects on the file: *)
(* open(path, "w") empties it, json.dump then writes the records.          *)
(***************************************************************************)
\* _check_and_execute_orders: _save_orders() has opened the file for writing
CycleSaveOpen ==
    /\ mpc = "save"
    /\ store' = CorruptStore
    /\ mpc' = "dump"
    /\ UNCHANGED <<orders, positions, active, cur_price, exc, rpc, rid, rdata, broker>>
    /\ UNCHANGED <<ovars, xvars>>

\* _check_and_execute_orders: json.dump has written the records and the
\* cycle ends
CycleSaveDump ==
    /\ mpc = "dump"
    /\ store' = SaveOrders(orders)
    /\ mpc' = "sleep"
    /\ positions' = NoPositions
    /\ UNCHANGED <<orders, active, cur_price, exc, rpc, rid, rdata, broker>>
    /\ UNCHANGED <<ovars, xvars>>

\* the process dies inside a cycle; the file stays as it is
Crash ==
    /\ mpc \notin {"sleep", "crashed"}
    /\ mpc' = "crashed"
    /\ rpc' = "crashed"
    /\ UNCHANGED <<orders, store, positions, active, cur_price, exc, rid, rdata, broker>>
    /\ UNCHANGED <<ovars, xvars>>

\* the process is started again after a crash: OrderManager.__init__ loads
\* the order file (an unparsable file gives an empty map) and the monitor
\* thread is started; what the brokerage has received stays received
Restart ==
    /\ mpc = "crashed"
    /\ \A id \in 1..Len(broker) : broker[id].calls < MaxSubmissions
    /\ orders' = LoadOrders(store)
    /\ broker' = SubSeq(broker, 1, Len(orders'))
    /\ mpc' = "sleep"
    /\ positions' = NoPositions
    /\ active' = <<>>
    /\ cur_price' = 0
    /\ exc' = ""
    /\ rpc' = "idle"
    /\ rid' = 0
    /\ rdata' = NoUpdate
    /\ UNCHANGED store
    /\ UNCHANGED <<ovars, xvars>>

CrashNext ==
    \/ CycleStart
    \/ CycleGetPrice
    \/ CycleShouldTrigger
    \/ CycleExecuteBegin
    \/ CycleExecuteEnd
    \/ CycleHandler
    \/ CycleSkip
    \/ CycleSaveOpen
    \/ CycleSaveDump
    \/ AddOrder
    \/ Crash
    \/ Restart

(***************************************************************************)
(* core/utilities/cache.py: TimedCache.  Time is counted in ticks; max_age *)
(* is a number of ticks.                                                   *)
(***************************************************************************)
CacheKeys == {"k1", "k2"}
FetchValues == {41, 42}
MaxAges == {0, 1, 3}

\* the threads that call one ThreadSafeTimedCache, each once
CacheThreads == {1, 2, 3}

\* a thread that has not called get_or_fetch yet
NoThreadCall ==
    [pc |-> "idle", key |-> "none", max_age |-> 0, at |-> 0, value |-> 0,
     fetched |-> FALSE, blocked |-> FALSE]

NoCall == [key |-> "none", max_age |-> 0, fetch |-> 0, value |-> 0, fetched |-> FALSE]

CacheEmpty ==
    /\ cache = [k \in CacheKeys |-> <<>>]
    /\ now = 0
    /\ ncalls = 0
    /\ nfetch = 0
    /\ flog = [k \in CacheKeys |-> <<>>]
    /\ cret = NoCall
    /\ lock = 0
    /\ tcalls = [t \in CacheThreads |-> NoThreadCall]

\* "key in self._cache": a key is in the dict once a value was appended
InCache(entries) == Len(entries) > 0

\* A freshness test that takes an entry exactly max_age old for stale.
IsFresh_Strict(entries, at, max_age) ==
    InCache(entries) /\ at - entries[Len(entries)][2] < max_age

\* get_or_fetch: the key has an entry and "now - latest_timestamp <= max_age"
IsFresh(entries, at, max_age) ==
    InCache(entries) /\ at - entries[Len(entries)][2] <= max_age

\* get_or_fetch: the list of the key afterwards, v being what fetch_func
\* would return
GetOrFetchEntries(entries, at, max_age, v) ==
    IF IsFresh(entries, at, max_age) THEN entries ELSE Append(entries, <<v, at>>)

\* get_or_fetch: the value returned
GetOrFetchValue(entries, at, max_age, v) ==
    IF IsFresh(entries, at, max_age) THEN entries[Len(entries)][1] ELSE v

\* cache.get_or_fetch(key, fetch_func, max_age), fetch_func returning v when called
GetOrFetch ==
    /\ ncalls < MaxCalls
    /\ \E key \in CacheKeys, max_age \in MaxAges, v \in FetchValues :
          LET fresh == IsFresh(cache[key], now, max_age) IN
          /\ cache' = [cache EXCEPT ![key] = GetOrFetchEntries(cache[key], now, max_age, v)]
          /\ cret' = [key |-> key, max_age |-> max_age, fetch |-> v,
                       value |-> GetOrFetchValue(cache[key], now, max_age, v),
                       fetched |-> ~fresh]
          /\ nfetch' = IF fresh THEN nfetch ELSE nfetch + 1
          /\ flog' = IF fresh THEN flog ELSE [flog EXCEPT ![key] = Append(flog[key], v)]
    /\ ncalls' = ncalls + 1
    /\ UNCHANGED <<now, lock, tcalls>>
    /\ UNCHANGED <<ovars, mvars, repovars, tvars>>

\* time passes between two calls
CacheTick ==
    /\ now < MaxClock
    /\ now' = now + 1
    /\ UNCHANGED <<cache, ncalls, nfetch, flog, cret, lock, tcalls>>
    /\ UNCHANGED <<ovars, mvars, repovars, tvars>>

\* cache.get_all(key): the values of the key's list, oldest first
GetAllValues(key) == [i \in 1..Len(cache[key]) |-> cache[key][i][1]]

CacheNext ==
    \/ GetOrFetch
    \/ CacheTick

\* JsonFileRepository.save raises at the end of a cycle: open() fails and the
\* file stays as it was, or json.dump fails after open(path, "w") has cut
\* the file; the exception reaches the except clause of _save_orders
CycleSaveRaises ==
    /\ mpc = "save"
    /\ \E left \in {store, CorruptStore} : store' = left
    /\ mpc' = "save_except"
    /\ UNCHANGED <<orders, positions, active, cur_price, exc, rpc, rid, rdata, broker>>
    /\ UNCHANGED <<ovars, xvars>>

\* A _save_orders that lets the exception end the monitor thread.
AfterSaveFailure_EndsLoop == "crashed"

\* where the monitor thread goes from the except clause of _save_orders: the
\* error is logged, _check_and_execute_orders returns, _monitor_loop sleeps
AfterSaveFailure == "sleep"

\* _save_orders lines 71-72 and _monitor_loop line 164
CycleSaveExcept ==
    /\ mpc = "save_except"
    /\ mpc' = AfterSaveFailure
    /\ positions' = NoPositions
    /\ UNCHANGED <<orders, store, active, cur_price, exc, rpc, rid, rdata, broker>>
    /\ UNCHANGED <<ovars, xvars>>

\* the steps of the monitor thread when the store write may fail
MonitorStep ==
    \/ CycleStart
    \/ CycleGetPrice
    \/ CycleShouldTrigger
    \/ CycleExecuteBegin
    \/ CycleExecuteEnd
    \/ CycleHandler
    \/ CycleSkip
    \/ CycleSave
    \/ CycleSaveRaises
    \/ CycleSaveExcept

SaveFailNext ==
    \/ MonitorStep
    \/ AddOrder

\* records of another shape, as a file may hold them at position n: one that
\* carries the two timestamps but neither price field, one that carries no
\* timestamp
ForeignRecords(n) ==
    { [id |-> n, created_at |-> IsoFormat(DateTime(1)),
       updated_at |-> IsoFormat(DateTime(1)), limit_price |-> 3],
      [id |-> n, note |-> "memo"] }

\* what a file may hold at position n: a saved sell or buy order, or a
\* record of another shape
RecordsAt(n) == { SerializeOrder(order) : order \in RepoOrders(n) } \cup ForeignRecords(n)

\* one more record is found in the order file
FilePut ==
    /\ rp = "build"
    /\ store # CorruptStore
    /\ Len(store) < MaxItems
    /\ \E rec \in RecordsAt(Len(store) + 1) : store' = Append(store, rec)
    /\ UNCHANGED <<orders, mpc, positions, active, cur_price, exc, rpc, rid, rdata, broker>>
    /\ UNCHANGED <<ovars, repovars, tvars, cvars>>

\* repository.load() on the file: it returns the orders or raises
FileLoad ==
    /\ rp = "build"
    /\ rp' = IF RepositoryLoadDated(store).raised THEN "raised" ELSE "loaded"
    /\ loaded' = RepositoryLoadDated(store).orders
    /\ UNCHANGED items
    /\ UNCHANGED <<ovars, mvars, tvars, cvars>>

LoadNext ==
    \/ FilePut
    \/ FileLoad

\* A lock that never keeps a thread out.
LockFree_Always(holder) == TRUE

\* "with self._lock": the lock can be acquired
LockFree(holder) == holder = 0

\* thread t calls cache.get_or_fetch(key, fetch_func, max_age) and reaches
\* "with self._lock"; blocked records that it found the lock taken
ThreadCall(t) ==
    /\ tcalls[t].pc = "idle"
    /\ \E key \in CacheKeys, max_age \in MaxAges :
          tcalls' = [tcalls EXCEPT ![t] =
                        [@ EXCEPT !.pc = "lock", !.key = key, !.max_age = max_age,
                                  !.blocked = ~LockFree(lock)]]
    /\ UNCHANGED <<cache, now, ncalls, nfetch, flog, cret, lock>>
    /\ UNCHANGED <<ovars, mvars, repovars, tvars>>

\* thread t acquires the lock and runs TimedCache.get_or_fetch up to the call
\* of fetch_func: it reads the clock, and returns the latest value (releasing
\* the lock) if the key has an entry that is fresh
ThreadEnter(t) ==
    /\ tcalls[t].pc = "lock"
    /\ LockFree(lock)
    /\ LET c == tcalls[t] IN
       IF IsFresh(cache[c.key], now, c.max_age)
       THEN /\ tcalls' = [tcalls EXCEPT ![t] =
                             [@ EXCEPT !.pc = "done", !.at = now,
                                       !.value = cache[c.key][Len(cache[c.key])][1]]]
            /\ lock' = lock
       ELSE /\ tcalls' = [tcalls EXCEPT ![t] = [@ EXCEPT !.pc = "fetch", !.at = now]]
            /\ lock' = t
    /\ UNCHANGED <<cache, now, ncalls, nfetch, flog, cret>>
    /\ UNCHANGED <<ovars, mvars, repovars, tvars>>

\* fetch_func returns v to thread t: the pair (v, now as read on entry) is
\* appended, the lock is released, v is returned
ThreadFetchReturn(t) ==
    /\ tcalls[t].pc = "fetch"
    /\ \E v \in FetchValues :
          /\ cache' = [cache EXCEPT ![tcalls[t].key] = Append(@, <<v, tcalls[t].at>>)]
          /\ tcalls' = [tcalls EXCEPT ![t] =
                           [@ EXCEPT !.pc = "done", !.value = v, !.fetched = TRUE]]
    /\ lock' = 0
    /\ UNCHANGED <<now, ncalls, nfetch, flog, cret>>
    /\ UNCHANGED <<ovars, mvars, repovars, tvars>>

ThreadedCacheNext ==
    \/ \E t \in CacheThreads : ThreadCall(t)
    \/ \E t \in CacheThreads : ThreadEnter(t)
    \/ \E t \in CacheThreads : ThreadFetchReturn(t)
    \/ CacheTick

Next ==
    \/ CycleStart
    \/ CycleGetPrice
    \/ CycleShouldTrigger
    \/ CycleExecuteBegin
    \/ CycleExecuteEnd
    \/ CycleHandler
    \/ CycleSkip
    \/ CycleSave
    \/ AddOrder
    \/ CancelCheck
    \/ CancelWrite
    \/ UpdateCheck
    \/ UpdateWrite

Init == OrderInit /\ ManagerInit /\ RepoIdle /\ ThreadsIdle /\ CacheEmpty

SpecOrder == Init /\ [][OrderNext]_vars

Spec == Init /\ [][Next]_vars

SpecRepo == Init /\ [][RepoNext]_vars

SpecService == Init /\ [][ServiceNext]_vars

\* the monitor thread is scheduled again and again, and time.sleep returns
SpecServiceLive == Init /\ [][ServiceNext]_vars /\ WF_vars(LoopStep)

SpecStartStop == Init /\ [][SerialNext]_vars

SpecStartStopRace == Init /\ [][RacingNext]_vars

SpecCache == Init /\ [][CacheNext]_vars

SpecCacheThreads == Init /\ [][ThreadedCacheNext]_vars

\* the manager comes up with no order file, or an empty one
CrashInit == Init /\ store = <<>>

SpecCrash == CrashInit /\ [][CrashNext]_vars

SpecLoad == Init /\ [][LoadNext]_vars

\* the monitor thread is scheduled again and again, and time.sleep returns
SpecSaveFailLive == Init /\ [][SaveFailNext]_vars /\ WF_vars(MonitorStep)

(***************************************************************************)
(* Claims about the order entities (checked under SpecOrder)               *)
(***************************************************************************)
\* the last element of a non-empty sequence
Last(s) == s[Len(s)]

\* a should_trigger call has just been made on the order
OrderFedStep == phase = "live" /\ fed' # fed

\* The claim's own trigger condition of a sell order holding extremum `highest`:
\* p <= highest - trailing_amount, or p <= highest * (1 - trailing_percent/100).
AtOrBelowSellTrigger(order, highest, p) ==
    IF order.trailing_amount # None
    THEN p <= highest - Val(order.trailing_amount)
    ELSE 100 * p <= highest * (100 - Val(order.trailing_percent))

\* C1: for a WAITING sell order should_trigger(p) sets highest_price to p and
\* returns false when p > highest_price; otherwise it leaves highest_price
\* unchanged and returns true iff p <= trigger price, p >= min_price and
\* highest_price >= min_price.  On a non-WAITING order it returns false and
\* changes nothing.
C1_SellShouldTriggerContract ==
    [][ (OrderFedStep /\ o.type = "sell") =>
          LET p == Last(fed') IN
          IF o.status = WAITING
          THEN IF p > o.highest_price
               THEN o'.highest_price = p /\ ret' = FALSE
               ELSE /\ o'.highest_price = o.highest_price
                    /\ ret' = (/\ AtOrBelowSellTrigger(o, o.highest_price, p)
                               /\ p >= o.min_price
                               /\ o.highest_price >= o.min_price)
          ELSE ret' = FALSE /\ o' = o ]_vars

\* C1 witness: a percent-trailing sell order that saw a high and then returned
\* true at a price at or below its trigger price.
C1_Witness ==
    /\ phase = "live" /\ o.type = "sell" /\ o.status = WAITING
    /\ o.trailing_percent # None
    /\ Len(fed) >= 2 /\ ret = TRUE
    /\ Last(fed) < o.highest_price

\* C2: whenever should_trigger of a sell order has returned true, the price it
\* was given is at or below the trigger price and not below min_price.
C2_SellTriggerWithinBounds ==
    (phase = "live" /\ o.type = "sell" /\ fed # <<>> /\ ret = TRUE) =>
        /\ AtOrBelowSellTrigger(o, o.highest_price, Last(fed))
        /\ Last(fed) >= o.min_price

\* C2 witness: a sell order has triggered.
C2_Witness ==
    /\ phase = "live" /\ o.type = "sell" /\ fed # <<>> /\ ret = TRUE
    /\ o.trailing_amount # None

\* C3: while the order is WAITING a sell order's highest_price never decreases
\* and a buy order's lowest_price never increases.
C3_ExtremumMonotonic ==
    [][ (phase = "live" /\ o.status = WAITING) =>
          /\ (o.type = "sell" => o'.highest_price >= o.highest_price)
          /\ (o.type = "buy" => o'.lowest_price <= o.lowest_price) ]_vars

\* C3 witness: a WAITING buy order whose recorded low is below the price of the
\* latest evaluation.
C3_Witness ==
    /\ phase = "live" /\ o.type = "buy" /\ o.status = WAITING
    /\ Len(fed) >= 2
    /\ o.lowest_price < Last(fed)

\* C4: a WAITING buy order given a price below its lowest_price (the first
\* price included) records it as the new low and returns false.
C4_BuyNeverTriggersOnNewLow ==
    [][ (OrderFedStep /\ o.type = "buy" /\ o.status = WAITING
             /\ Last(fed') < o.lowest_price) =>
          (o'.lowest_price = Last(fed') /\ ret' = FALSE) ]_vars

\* the order of scenario B, still waiting
ScenarioBOrder ==
    /\ phase = "live" /\ o.type = "buy" /\ o.status = WAITING
    /\ o.max_price = 200 /\ o.quantity = 5
    /\ o.trailing_amount = Some(10) /\ o.trailing_percent = None

\* C5: scenario B.  A buy order (max_price 200, quantity 5, trailing_amount 10)
\* fed 190, 180, 185, 191 has lowest_price 180, trigger price 190 and the last
\* call returned false; fed 190 next, the call returns true.
C5_ScenarioB ==
    /\ (ScenarioBOrder /\ fed = <<190, 180, 185, 191>>) =>
          /\ o.lowest_price = 180
          /\ BuyGetTriggerPrice(o) = Some(190 * PercentBase)
          /\ ret = FALSE
    /\ (ScenarioBOrder /\ fed = <<190, 180, 185, 191, 190>>) =>
          /\ o.lowest_price = 180
          /\ ret = TRUE

\* C5 witness: the scenario has been played to its end.
C5_Witness ==
    ScenarioBOrder /\ fed = <<190, 180, 185, 191, 190>> /\ ret = TRUE

(***************************************************************************)
(* Claims about the order manager (checked under Spec)                     *)
(***************************************************************************)
\* the step is one of the monitor thread (an evaluation cycle's step)
CycleStep == <<mpc, positions, active, cur_price, exc>>' # <<mpc, positions, active, cur_price, exc>>

\* C6: COMPLETED and CANCELLED are terminal under every interleaving of the
\* cycle with cancel, add and update requests; ERROR is entered only from
\* WAITING or TRIGGERED and is never left by the evaluation cycle.
C6_TerminalStatuses ==
    [][ \A id \in 1..Len(orders) :
          /\ orders[id].status \in {COMPLETED, CANCELLED}
                => orders'[id].status = orders[id].status
          /\ (orders'[id].status = ERROR /\ orders[id].status # ERROR)
                => orders[id].status \in {WAITING, TRIGGERED}
          /\ (orders[id].status = ERROR /\ CycleStep)
                => orders'[id].status = ERROR ]_vars

\* C7: place_order is called at most once per order id.
C7_AtMostOneMarketOrder ==
    \A id \in 1..Len(orders) : broker[id].calls <= 1

\* C7 witness: an order whose market order failed is in ERROR, and an
\* evaluation cycle has started since.
C7_Witness ==
    \E id \in 1..Len(orders) :
        /\ broker[id].calls = 1
        /\ orders[id].status = ERROR
        /\ broker[id].later_cycle

\* C8 as stated: execute_order sets TRIGGERED, then COMPLETED only if the
\* unlock and the order placement both succeeded; on any failure (unlock
\* fails, brokerage rejects, a call raises) the order ends in ERROR with the
\* message recorded and execute_order raises.
C8_AnyFailureIsError ==
    [][ /\ (mpc = "trigger" /\ mpc' = "exec")
            => orders'[Head(active)].status = TRIGGERED
        /\ (mpc = "exec" /\ mpc' # "exec")
            => LET id == Head(active) IN
               IF broker'[id].unlock = "ok" /\ broker'[id].place = "ok"
               THEN orders'[id].status = COMPLETED /\ mpc' # "handler"
               ELSE /\ orders'[id].status = ERROR
                    /\ orders'[id].error_message = Some(exc')
                    /\ mpc' = "handler" ]_vars

\* C8 as amended: execute_order sets TRIGGERED, then COMPLETED exactly when
\* place_order returned RET_OK and no call raised, whatever unlock_trade
\* returned; when place_order is rejected or a call raises the order ends in
\* ERROR with the message recorded and execute_order raises.
C8_PlaceFailureIsError ==
    [][ /\ (mpc = "trigger" /\ mpc' = "exec")
            => orders'[Head(active)].status = TRIGGERED
        /\ (mpc = "exec" /\ mpc' # "exec")
            => LET id == Head(active) IN
               IF broker'[id].place = "ok"
               THEN orders'[id].status = COMPLETED /\ mpc' # "handler"
               ELSE /\ orders'[id].status = ERROR
                    /\ orders'[id].error_message = Some(exc')
                    /\ exc' # ""
                    /\ mpc' = "handler" ]_vars

\* C8 witness: execute_order has just raised after the brokerage rejected the
\* order, and the order is in ERROR with the message recorded.
C8_Witness ==
    /\ mpc = "handler"
    /\ broker[Head(active)].place = "fail"
    /\ orders[Head(active)].status = ERROR
    /\ orders[Head(active)].error_message = Some(PlaceFailedMsg)

\* the ids held by a sequence of ids
Elements(seq) == { seq[i] : i \in 1..Len(seq) }

\* C9: when place_order reports failure the order ends execute_order in ERROR
\* with a non-empty error_message; from then on it is not waiting, not among
\* get_active_orders, and not in the snapshot of any later cycle.
C9_FailedOrderExcluded ==
    [][ /\ (mpc = "exec" /\ mpc' # "exec" /\ broker'[Head(active)].place = "fail")
            => /\ orders'[Head(active)].status = ERROR
               /\ orders'[Head(active)].error_message # None
               /\ Val(orders'[Head(active)].error_message) # ""
        /\ \A id \in 1..Len(orders) :
              broker[id].place = "fail"
                => /\ ~IsOrderWaiting(orders'[id])
                   /\ id \notin Elements(GetActiveOrders(orders'))
                   /\ (broker'[id].later_cycle => id \notin Elements(active')) ]_vars

\* C9 witness: an order whose placement was rejected is in ERROR with its
\* message while a later cycle is under way.
C9_Witness ==
    \E id \in 1..Len(orders) :
        /\ broker[id].place = "fail"
        /\ broker[id].later_cycle
        /\ orders[id].status = ERROR
        /\ orders[id].error_message = Some(PlaceFailedMsg)
        /\ mpc = "price"

\* the running extremum of an order
Extremum(order) == IF order.type = "sell" THEN order.highest_price ELSE order.lowest_price

\* C10: a WAITING order whose price is unavailable in a cycle (get_current_price
\* found no position, or no position and no market-data price) stays WAITING
\* with its extremum unchanged when the cycle has dealt with it.
C10_PriceUnavailableSkips ==
    [][ (/\ mpc = "handler"
         /\ exc \in {SellNoPositionMsg, LookupFailedMsg}
         /\ orders[Head(active)].status = WAITING)
            => /\ orders'[Head(active)].status = WAITING
               /\ Extremum(orders'[Head(active)]) = Extremum(orders[Head(active)]) ]_vars

\* C11: a cycle whose position fetch fails (raises, or returns None or an
\* empty list) is left at once: none of its steps changes any order or writes
\* the order store.
C11_FailedFetchChangesNothing ==
    [][ CycleStep =>
          /\ (mpc = "sleep" /\ positions' = NoPositions)
                => (mpc' = "skip" /\ orders' = orders /\ store' = store /\ active' = active)
          /\ (mpc = "skip")
                => (mpc' = "sleep" /\ orders' = orders /\ store' = store)
          /\ (positions = NoPositions /\ positions' = NoPositions)
                => (orders' = orders /\ store' = store) ]_vars

\* C11 witness: a cycle is being left for want of positions while an order
\* that an earlier cycle has evaluated is waiting.
C11_Witness ==
    /\ mpc = "skip"
    /\ \E id \in 1..Len(orders) :
          orders[id].status = WAITING /\ orders[id].last_checked_price # None

\* C12: an exception raised while one order is processed goes to the per-order
\* except clause, which puts that order in ERROR, leaves every other order as
\* it is, and lets the loop go on with the rest of the snapshot (or, after the
\* last order, with the save); every order of the snapshot gets its turn.
C12_ExceptionContained ==
    [][ CycleStep =>
          /\ (mpc = "handler")
                => LET id == Head(active) IN
                   /\ orders'[id].status = ERROR
                   /\ \A j \in 1..Len(orders) : j # id => orders'[j] = orders[j]
                   /\ active' = Tail(active)
                   /\ mpc' = (IF Tail(active) = <<>> THEN "save" ELSE "price")
          /\ (mpc \in {"price", "check", "trigger", "exec"})
                => /\ active' \in {active, Tail(active)}
                   /\ mpc' \in {"price", "check", "trigger", "exec", "handler", "save"}
                   /\ (mpc' = "save") = (active' = <<>>)
          /\ (mpc = "price")
                => \/ mpc' = "handler"
                   \/ orders'[Head(active)].last_checked_price # None ]_vars

\* C12 witness: an exception is on its way to the except clause while another
\* order of the snapshot is still to be evaluated.
C12_Witness ==
    /\ mpc = "handler"
    /\ Len(active) >= 2
    /\ orders[active[2]].status = WAITING

\* the sell order's stock is held in at least the order's quantity
HeldEnough(order, pos) ==
    order.stock_code \in DOMAIN pos /\ pos[order.stock_code] >= order.quantity

\* order maps add_order is applied to: the empty one and those of one order
AddOrderMaps == { <<>> } \cup { <<CreateOrder(1, inp)>> : inp \in NewOrderInputs }

\* add_order applied to each order map above, each request body and each
\* answer of the position fetch ends as the claim says: "returned" without
\* positions, "raised" for a sell order that is not covered, both with the
\* map and the file as they were; "added" otherwise, with the order appended
\* and the file written
AddOrderAsClaimed ==
    \A ords \in AddOrderMaps, inp \in NewOrderInputs, fetched \in AddFetchResults :
        LET order == CreateOrder(Len(ords) + 1, inp)
            outcome == AddOrderOutcome(order, fetched)
            file == Serialize(ords)
        IN /\ (fetched.kind = "none") => outcome = "returned"
           /\ (fetched.kind = "list" /\ order.type = "sell"
                  /\ ~HeldEnough(order, fetched.pos)) => outcome = "raised"
           /\ (fetched.kind = "list" /\ order.type = "sell"
                  /\ HeldEnough(order, fetched.pos)) => outcome = "added"
           /\ (fetched.kind = "list" /\ order.type = "buy") => outcome = "added"
           /\ (outcome # "added")
                  => /\ AddOrderOrders(ords, order, fetched) = ords
                     /\ AddOrderStore(ords, file, order, fetched) = file
           /\ (outcome = "added")
                  => /\ AddOrderOrders(ords, order, fetched) = Append(ords, order)
                     /\ AddOrderStore(ords, file, order, fetched)
                           = Serialize(Append(ords, order))

\* C13: add_order returns without adding when positions are None and raises
\* when a sell order's stock is not held in the order's quantity, the order
\* map and the store staying as they are; otherwise (every buy order, every
\* covered sell order) the order is appended to the map as WAITING and the
\* store is written with the new map at once.
C13_AddOrderOnlyOnSuccess ==
    [][ /\ AddOrderAsClaimed
        /\ Len(orders') # Len(orders)
              => /\ Len(orders') = Len(orders) + 1
                 /\ SubSeq(orders', 1, Len(orders)) = orders
                 /\ Last(orders').status = WAITING
                 /\ store' = Serialize(orders') ]_vars

\* C13 witness: a sell order has just been added behind an earlier order and
\* the store holds both.
C13_Witness ==
    /\ Len(orders) = 2
    /\ orders[2].type = "sell" /\ orders[2].status = WAITING
    /\ orders[2].last_checked_price = None
    /\ store = Serialize(orders)

\* C14: cancel_order raises not-found for an unknown id and invalid-state for
\* an order that is not WAITING, and only a call that passed both checks
\* writes: it sets that order CANCELLED, leaves the others, and writes the
\* store.  No order becomes CANCELLED in any other way.
C14_CancelOrderContract ==
    [][ /\ \A id \in 1..MaxOrders :
              /\ (id > Len(orders)) => CancelOrderOutcome(orders, id) = "not_found"
              /\ (id <= Len(orders) /\ orders[id].status # WAITING)
                    => CancelOrderOutcome(orders, id) = "invalid_state"
              /\ (id <= Len(orders) /\ orders[id].status = WAITING)
                    => CancelOrderOutcome(orders, id) = "ok"
        /\ (rpc = "idle" /\ rpc' = "cancel")
              => /\ rid' <= Len(orders) /\ orders[rid'].status = WAITING
                 /\ orders' = orders /\ store' = store
        /\ (rpc = "cancel" /\ rpc' # "cancel")
              => /\ orders'[rid].status = CANCELLED
                 /\ \A j \in 1..Len(orders) : j # rid => orders'[j] = orders[j]
                 /\ Len(orders') = Len(orders)
                 /\ store' = Serialize(orders')
        /\ \A id \in 1..Len(orders) :
              (orders'[id].status = CANCELLED /\ orders[id].status # CANCELLED)
                    => (rpc = "cancel" /\ rid = id) ]_vars

\* C14 witness: cancel_order has cancelled one order while another is in a
\* status that cannot be cancelled, and the store holds both.
C14_Witness ==
    /\ Len(orders) = 2
    /\ orders[1].status = CANCELLED
    /\ orders[2].status \in {COMPLETED, ERROR}
    /\ store = Serialize(orders)
    /\ rpc = "idle"

\* C15: an order store that cannot be parsed at startup stops the manager from
\* coming up, so the unparsable store is never overwritten.
C15_CorruptStoreNeverOverwritten ==
    [][ store = CorruptStore => store' = CorruptStore ]_vars

\* no step removes an order from the map or changes an order's id
OrdersKept ==
    /\ Len(orders') >= Len(orders)
    /\ \A id \in 1..Len(orders) : orders'[id].id = orders[id].id

\* C16: orders are never deleted: the map never loses an id, and an order that
\* is CANCELLED stays in the map with status CANCELLED and is in every store
\* written from then on, with status CANCELLED.
C16_OrdersNeverDeleted ==
    [][ /\ OrdersKept
        /\ \A id \in 1..Len(orders) :
              orders[id].status = CANCELLED
                 => /\ orders'[id].status = CANCELLED
                    /\ (store' # store)
                          => /\ Len(store') >= id
                             /\ store'[id].id = id
                             /\ store'[id].status = StatusValue(CANCELLED) ]_vars

\* C16, the part about presence alone: the map never loses an id and every
\* store written holds every order of the map.
C16_PresenceOnly ==
    [][ /\ OrdersKept
        /\ \A id \in 1..Len(orders) :
              (store' # store) => (Len(store') >= id /\ store'[id].id = id) ]_vars

\* the conditions under which create must fail, by the claim
CreateMustFail(a) ==
    \/ a.trailing_amount # None /\ a.trailing_percent # None
    \/ a.trailing_amount = None /\ a.trailing_percent = None
    \/ a.trailing_amount # None /\ Val(a.trailing_amount) <= 0
    \/ a.trailing_percent # None
          /\ ~(0 < Val(a.trailing_percent) /\ Val(a.trailing_percent) < 100)
    \/ a.threshold <= 0
    \/ a.quantity <= 0

\* C17: create of either order class raises, and no order exists, exactly
\* when the arguments meet one of the listed conditions; otherwise it returns
\* an order of its class holding the arguments, WAITING, with the extremum at
\* its sentinel (highest_price 0, lowest_price 1e10).
C17_CreateValidation ==
    [][ (phase = "new" /\ phase' # "new") =>
          IF CreateMustFail(args')
          THEN phase' = "rejected" /\ o' = NoOrder
          ELSE /\ phase' = "live"
               /\ o'.type = args'.kind
               /\ o'.status = WAITING
               /\ o'.quantity = args'.quantity
               /\ o'.trailing_amount = args'.trailing_amount
               /\ o'.trailing_percent = args'.trailing_percent
               /\ (o'.type = "sell")
                     => (o'.min_price = args'.threshold /\ o'.highest_price = 0)
               /\ (o'.type = "buy")
                     => (o'.max_price = args'.threshold
                         /\ o'.lowest_price = SENTINEL_LOWEST) ]_vars

\* C17 witness: a create call given both trailing options, each of them valid
\* by itself, was rejected.
C17_Witness ==
    /\ phase = "rejected"
    /\ args.trailing_amount # None /\ Val(args.trailing_amount) > 0
    /\ args.trailing_percent # None /\ Val(args.trailing_percent) < 100
    /\ args.threshold > 0 /\ args.quantity > 0

\* the parameter constraints of one order
OrderParametersValid(order) ==
    /\ (order.trailing_amount = None) # (order.trailing_percent = None)
    /\ order.quantity > 0
    /\ (order.type = "sell") => order.min_price > 0
    /\ (order.type = "buy") => order.max_price > 0
    /\ order.trailing_percent # None
          => (0 < Val(order.trailing_percent) /\ Val(order.trailing_percent) < 100)
    /\ order.trailing_amount # None => Val(order.trailing_amount) > 0

C19_EqualPriceIsIdempotent ==
    [][ (OrderFedStep /\ o.type = "sell" /\ o.status = WAITING
            /\ o.highest_price > 0 /\ Last(fed') = o.highest_price)
        => (ret' = FALSE /\ o'.highest_price = o.highest_price) ]_vars

\* C19 witness: the last three prices given to a WAITING sell order were the
\* same price; the first made it the highest price, the next two repeated it.
C19_Witness ==
    /\ phase = "live" /\ o.type = "sell" /\ o.status = WAITING
    /\ Len(fed) >= 3
    /\ o.highest_price > 0
    /\ o.highest_price >= o.min_price
    /\ \A k \in (Len(fed) - 2)..Len(fed) : fed[k] = o.highest_price
    /\ \A k \in 1..Len(fed) : fed[k] <= o.highest_price
    /\ ret = FALSE

\* the value the formulas of get_trigger_price give for an order, in
\* 1/PercentBase units, written from the order's fields
TrailedExtremum(order) ==
    IF order.type = "sell"
    THEN IF order.trailing_amount # None
         THEN order.highest_price * PercentBase - Val(order.trailing_amount) * PercentBase
         ELSE order.highest_price * PercentBase
                 - order.highest_price * Val(order.trailing_percent)
    ELSE IF order.trailing_amount # None
         THEN order.lowest_price * PercentBase + Val(order.trailing_amount) * PercentBase
         ELSE order.lowest_price * PercentBase
                 + order.lowest_price * Val(order.trailing_percent)

\* no extremum has been observed by the order
NothingObserved(order) ==
    IF order.type = "sell" THEN order.highest_price = 0
    ELSE order.lowest_price = SENTINEL_LOWEST

\* C20: get_trigger_price returns None exactly when no extremum has been
\* observed (sell: highest_price = 0; buy: lowest_price = the sentinel);
\* otherwise it returns highest_price - trailing_amount or
\* highest_price * (1 - trailing_percent/100) for a sell order and
\* lowest_price + trailing_amount or lowest_price * (1 + trailing_percent/100)
\* for a buy order; the call never changes the order.
C20_GetTriggerPriceContract ==
    [][ (trig'.called /\ ~trig.called)
        => /\ o' = o
           /\ (trig'.value = None) <=> NothingObserved(o)
           /\ ~NothingObserved(o) => trig'.value = Some(TrailedExtremum(o)) ]_vars

\* C20 witness: get_trigger_price was called on a buy order with
\* trailing_percent that has observed a low, and returned a price.
C20_Witness ==
    /\ phase = "live" /\ trig.called
    /\ o.type = "buy" /\ o.trailing_percent # None
    /\ o.lowest_price # SENTINEL_LOWEST
    /\ trig.value # None

\* C21: saving a collection of N sell and buy orders and loading the file
\* gives N orders again, the i-th of the same class as the i-th saved and
\* equal to it in every field: status, timestamps, trailing fields,
\* thresholds and the extremum, the unset values 0 and 1e10 included.
C21_SaveLoadRoundTrip ==
    rp = "loaded"
        => /\ Len(loaded) = Len(items)
           /\ \A i \in 1..Len(items) :
                 /\ loaded[i].type = items[i].type
                 /\ DOMAIN loaded[i] = DOMAIN items[i]
                 /\ \A f \in DOMAIN items[i] : loaded[i][f] = items[i][f]

\* C21 witness: three orders were saved and loaded, among them a sell order
\* that has seen no price, a buy order that has seen none, and an order with
\* a last_check_time.
C21_Witness ==
    /\ rp = "loaded"
    /\ Len(items) = 3
    /\ \E i \in 1..3 : items[i].type = "sell" /\ items[i].highest_price = 0
    /\ \E i \in 1..3 : items[i].type = "buy" /\ items[i].lowest_price = SENTINEL_LOWEST
    /\ \E i \in 1..3 : items[i].last_check_time # None

\* C22: when OrderManager.stop() has returned, the monitor thread has ended:
\* no Thread object is anywhere in its loop (so no cycle is executing, an
\* in-flight one having been waited for), and it stays so until start() is
\* called again.
C22_StopWaitsForMonitorThread ==
    \A c \in SerialCallers :
        (callers[c].pc = "idle" /\ callers[c].last = "stop: stopped")
            => \A t \in 1..Len(threads) : threads[t] = "done"

\* C22 witness: the manager was started, stopped, started again and stopped
\* again; both monitor threads have ended and stop() has returned.
C22_Witness ==
    /\ callers[1].pc = "idle" /\ callers[1].last = "stop: stopped"
    /\ Len(threads) = 2
    /\ threads[1] = "done" /\ threads[2] = "done"
    /\ running = FALSE /\ monitor_thread = None

\* the calling thread makes a call: it leaves "idle", or comes back at once
\* with a new outcome
CallMade(c) == callers[c].pc = "idle" /\ callers'[c] # callers[c]

\* C23: ThreadedService.start() on a running service returns at once: no
\* Thread is created and monitor_thread and running stay as they are.
\* stop() on a service that is not running returns at once, changes nothing
\* and raises nothing.  Whenever stop() returns, running is False and
\* monitor_thread is None.
C23_StartStopIdempotent ==
    [][ \A c \in ServiceCallers :
          /\ (CallMade(c) /\ running)
                => /\ callers'[c].pc \in {"idle", "stop_set"}
                   /\ callers'[c].pc = "idle"
                         => /\ callers'[c].last = "start: already running"
                            /\ threads' = threads
                            /\ monitor_thread' = monitor_thread
                            /\ running' = running
          /\ (CallMade(c) /\ ~running)
                => /\ callers'[c].pc \in {"idle", "start_set"}
                   /\ callers'[c].pc = "idle"
                         => /\ callers'[c].last = "stop: not running"
                            /\ threads' = threads
                            /\ monitor_thread' = monitor_thread
                            /\ running' = running
          /\ callers'[c].last # "stop: raised"
          /\ (callers'[c].pc = "idle"
                 /\ callers'[c].last \in {"stop: stopped", "stop: not running"})
                => (running' = FALSE /\ monitor_thread' = None) ]_vars

\* C23 witness: a service that was started, stopped and started again is
\* running its second thread, and a further start() has just returned
\* without doing anything.
C23_Witness ==
    /\ callers[1].pc = "idle" /\ callers[1].last = "start: already running"
    /\ running = TRUE
    /\ Len(threads) = 2
    /\ threads[1] = "done" /\ threads[2] \in Alive
    /\ monitor_thread = Some(2)

\* C24: while a ThreadedService is running, run() keeps being invoked: every
\* invocation, one that raised included, is followed by the sleep of the
\* loop and not by the end of the loop, and from the except clause, the
\* sleep or the loop test run() is invoked again unless running has become
\* false.
C24_RunKeepsBeingInvoked ==
    \A t \in 1..MaxThreads :
        /\ (Len(threads) >= t /\ threads[t] = "run")
              ~> (Len(threads) >= t /\ threads[t] = "sleep")
        /\ (Len(threads) >= t /\ threads[t] \in {"except", "sleep", "test"})
              ~> ((Len(threads) >= t /\ threads[t] = "run") \/ ~running)

\* C24 witness: run() has raised and the monitor thread is in the except
\* clause, the service still running.
C24_Witness ==
    /\ running = TRUE
    /\ Len(threads) >= 1
    /\ threads[Len(threads)] = "except"
    /\ monitor_thread = Some(Len(threads))

\* the entries of the key of the call just made, before the call
EntriesBefore == cache[cret'.key]

C26_NoDuplicateEntry ==
    [][ (ncalls' = ncalls + 1 /\ cret'.fetched
            /\ Len(EntriesBefore) > 0 /\ Last(EntriesBefore)[1] = cret'.fetch)
        => Len(cache'[cret'.key]) = Len(EntriesBefore) ]_vars

\* C27: the order store always equals the in-memory orders as they were at
\* the end of the last completed evaluation cycle; no write puts a state
\* from the middle of a cycle into it.  In particular no record of the
\* store ever has status TRIGGERED, a status an order has only while a
\* cycle is executing it.
C27_NoMidCycleStateStored ==
    store # CorruptStore
        => \A i \in 1..Len(store) : store[i].status # StatusValue(TRIGGERED)

\* C28: a cycle in which positions were available writes the store exactly
\* once, after the last order of its snapshot, never between two orders;
\* so a crash at any point inside a cycle leaves the store holding what was
\* persisted before: a complete list of records, never a file cut short.
C28_CrashLeavesPersistedState ==
    mpc = "crashed" => store # CorruptStore

\* The cycle's own writes: the monitor thread changes the store only in the
\* step that ends a cycle with positions, after the snapshot is used up.
CycleWritesOnlyAtEnd ==
    [][ (CycleStep /\ store' # store) => (mpc = "save" /\ mpc' = "sleep") ]_vars

\* C29: however start() and stop() calls from different threads interleave
\* on one OrderManager, at most one monitor loop is alive at a time, so
\* two executions of the evaluation cycle never overlap.
C29_AtMostOneMonitorLoop ==
    Cardinality({t \in 1..Len(threads) : threads[t] \in Alive}) <= 1

\* Two cycles executing at the same moment.
CyclesOverlap ==
    Cardinality({t \in 1..Len(threads) : threads[t] = "run"}) >= 2

\* C30: mutations of the order map made for API requests (add_order,
\* cancel_order, an order update) and the cycle's read of the active-order
\* snapshot exclude each other: the monitor thread never takes its
\* snapshot while the request thread is inside a mutation, between its
\* check of the order and its write.
C30_SnapshotExcludesMutation ==
    [][ (mpc = "sleep" /\ mpc' \in {"price", "save"}) => rpc = "idle" ]_vars

\* C31: the orders a cycle evaluates are fixed when the cycle starts.  The
\* snapshot taken at the start holds exactly the orders waiting then; an
\* order added by add_order while the cycle is in progress is not in the
\* snapshot, the snapshot never grows inside a cycle, and each step of the
\* cycle touches (price lookup, extremum, execution, brokerage call) the
\* order at the head of the snapshot only; the added order is therefore
\* first evaluated in the next cycle, whose snapshot holds it.
C31_SnapshotFixedAtCycleStart ==
    [][ /\ (mpc = "sleep" /\ mpc' \in {"price", "save"})
            => Elements(active')
                  = {id \in 1..Len(orders) : orders[id].status = WAITING}
        /\ (mpc # "sleep" /\ Len(orders') > Len(orders))
            => Len(orders') \notin Elements(active')
        /\ mpc # "sleep" => Elements(active') \subseteq Elements(active)
        /\ (CycleStep /\ mpc # "sleep")
            => \A id \in 1..Len(orders) :
                  (orders'[id] # orders[id] \/ broker'[id] # broker[id])
                      => (active # <<>> /\ id = Head(active)) ]_vars

\* an order added in the middle of a cycle is left alone while the cycle
\* goes on with the order of its snapshot
C31_Witness ==
    /\ mpc \in {"check", "trigger", "exec"}
    /\ Len(orders) = 2
    /\ active = <<1>>
    /\ orders[1].last_checked_price # None
    /\ orders[2].status = WAITING
    /\ orders[2].last_checked_price = None
    /\ broker[2].calls = 0

\* C32: an order on which should_trigger returned true is executed in the
\* same cycle and is COMPLETED or ERROR when that cycle ends: at the step
\* that ends a cycle, every order for which this cycle reached place_order
\* is COMPLETED or ERROR.
C32_ExecutedOrderEndsCycleSettled ==
    [][ (mpc = "save" /\ mpc' = "sleep")
            => \A id \in 1..Len(orders) :
                  (broker[id].calls > 0 /\ ~broker[id].later_cycle)
                      => orders[id].status \in {COMPLETED, ERROR} ]_vars

\* TRIGGERED is transient: no order is TRIGGERED when a cycle ends, nor in
\* the store the cycle writes at its end.
TriggeredIsTransient ==
    [][ (mpc = "save" /\ mpc' = "sleep")
            => /\ \A id \in 1..Len(orders) : orders[id].status # TRIGGERED
               /\ \A i \in 1..Len(store') : store'[i].status # StatusValue(TRIGGERED) ]_vars

\* C33: whenever a cycle is about to start while a buy order is WAITING,
\* every successful answer of the brokerage that does not hold the order's
\* stock, the empty list of positions included, lets the cycle go on to
\* evaluate its orders instead of leaving at once.
C33_BuyOrderEvaluatedWithoutPosition ==
    \A id \in 1..Len(orders), fetched \in CycleFetchResults :
        ( /\ mpc = "sleep"
          /\ orders[id].type = "buy"
          /\ orders[id].status = WAITING
          /\ fetched.kind = "list"
          /\ orders[id].stock_code \notin DOMAIN fetched.pos )
            => ~PositionsUnavailable(fetched)

\* The same with at least one position held: the cycle is not left.
BuyOrderEvaluatedBesideOtherPositions ==
    \A id \in 1..Len(orders), fetched \in CycleFetchResults :
        ( /\ mpc = "sleep"
          /\ orders[id].type = "buy"
          /\ orders[id].status = WAITING
          /\ fetched.kind = "list"
          /\ DOMAIN fetched.pos # {}
          /\ orders[id].stock_code \notin DOMAIN fetched.pos )
            => ~PositionsUnavailable(fetched)

\* the fields of an order that an update request may set
Editable(order) ==
    <<order.quantity, IF order.type = "sell" THEN order.min_price ELSE order.max_price,
      order.trailing_amount, order.trailing_percent>>

\* C34: under every interleaving of requests with the evaluation cycle, the
\* user-editable fields of an order (quantity, min_price / max_price,
\* trailing_amount, trailing_percent) change only in a step that finds the
\* order WAITING.
C34_EditableOnlyWhileWaiting ==
    [][ \A id \in 1..Len(orders) :
            Editable(orders'[id]) # Editable(orders[id])
                => orders[id].status = WAITING ]_vars

\* id and stock_code of an order never change.
IdentityNeverChanges ==
    [][ \A id \in 1..Len(orders) :
            /\ orders'[id].id = orders[id].id
            /\ orders'[id].stock_code = orders[id].stock_code ]_vars

\* C35: a failure of the store write at the end of a cycle does not end the
\* manager: the failing write and its handling leave every order in memory
\* as the cycle made it, the monitor loop goes back to sleep, and the next
\* cycle is started.
C35_SaveFailureIsSurvived ==
    /\ [][ (mpc \in {"save", "save_except"} /\ CycleStep) => orders' = orders ]_vars
    /\ (mpc = "save_except") ~> (mpc = "sleep")
    /\ (mpc = "save_except") ~> (mpc \in {"skip", "price", "save"})

\* the write at the end of a cycle that evaluated an order has failed
C35_Witness ==
    /\ mpc = "save_except"
    /\ \E id \in 1..Len(orders) : orders[id].last_checked_price # None
    /\ store # SaveOrders(orders)

\* the records of a file that load recognises as orders
Recognisable(file) ==
    SelectSeq(file, LAMBDA rec : "min_price" \in DOMAIN rec \/ "max_price" \in DOMAIN rec)

\* C36: load of a parsable file does not fail and returns one order per
\* record that has a min_price field (a sell order) or a max_price field (a
\* buy order), in file order; every record of another shape is skipped.
C36_UnrecognisedRecordsSkipped ==
    (rp \in {"loaded", "raised"} /\ store # CorruptStore)
        => /\ rp = "loaded"
           /\ Len(loaded) = Len(Recognisable(store))
           /\ \A i \in 1..Len(loaded) :
                 /\ loaded[i].id = Recognisable(store)[i].id
                 /\ loaded[i].type
                       = IF "min_price" \in DOMAIN Recognisable(store)[i]
                         THEN "sell" ELSE "buy"

\* The same for files in which every record carries created_at and
\* updated_at.
DatedUnrecognisedRecordsSkipped ==
    (rp \in {"loaded", "raised"} /\ store # CorruptStore
        /\ \A i \in 1..Len(store) : HasDates(store[i]))
        => /\ rp = "loaded"
           /\ Len(loaded) = Len(Recognisable(store))
           /\ \A i \in 1..Len(loaded) :
                 /\ loaded[i].id = Recognisable(store)[i].id
                 /\ loaded[i].type
                       = IF "min_price" \in DOMAIN Recognisable(store)[i]
                         THEN "sell" ELSE "buy"

NoMarketOrderAfterCancel ==
    [][ \A id \in 1..Len(orders) :
            orders[id].status = CANCELLED
                => broker'[id].calls = broker[id].calls ]_vars

\* C38: across a crash and a restart that reloads the order file, no order
\* id has more than one place_order call: an order whose market order was
\* submitted before the crash is not WAITING after the reload, and the
\* brokerage never receives a second market order for it.
C38_NoResubmissionAfterRestart ==
    [][ /\ (mpc = "crashed" /\ mpc' = "sleep")
            => \A id \in 1..Len(orders') :
                  broker[id].calls > 0 => orders'[id].status # WAITING
        /\ \A id \in 1..Len(broker') : broker'[id].calls <= 1 ]_vars

\* The brokerage part alone.
NoSecondMarketOrder ==
    \A id \in 1..Len(broker) : broker[id].calls <= 1

\* the threads whose get_or_fetch call for key k has returned
CallersDone(k) == {t \in CacheThreads : tcalls[t].pc = "done" /\ tcalls[t].key = k}

=============================================================================
